---- MODULE Spec2Model ----
(***************************************************************************)
(* State-machine model of AIpStack::IpDhcpClient (the DHCPv4 client).      *)
(*                                                                         *)
(* Every member function of the client is an operator from a client record *)
(* to a client record, so that the statements of one handler compose in    *)
(* the order the code runs them.  An action of Next is one whole handler   *)
(* invocation (timer fire, received datagram, ARP observation, link-state  *)
(* notification, send-retry callback, destruction) or the passing of time. *)
(* The record field `effects` lists, in program order, what the handler    *)
(* did to its collaborators (timer, transport, ARP, interface, callback).  *)
(***************************************************************************)
EXTENDS Integers, Sequences, FiniteSets, TLC

\* ------------------------------------------------------------------------
\* Static parameters (IpDhcpClientOptions defaults).
\* ------------------------------------------------------------------------
XidReuseMax ==
    3
MaxRequests ==
    3
MaxRebootRequests ==
    2
BaseRtxTimeoutSeconds ==
    3
MaxRtxTimeoutSeconds ==
    64
ResetTimeoutSeconds ==
    3
MinRenewRtxTimeoutSeconds ==
    60
ArpResponseTimeoutSeconds ==
    1
NumArpQueries ==
    2

\* Platform::TimeFreq: clock ticks per second.
TimeFreq ==
    2
\* Largest number of seconds the timer can be set into the future
\* (static_assert: at least 255).
MaxTimerSeconds ==
    255

\* ------------------------------------------------------------------------
\* Bounds of the model (not program constants).
\* ------------------------------------------------------------------------
\* Largest latency (ticks) between a timer's expiry time and its handler.
MaxLatency ==
    1
\* Ticks that may pass after the timer was armed or unset before a message, an
\* ARP observation, a link-state change or a send retry is handled.
MaxIdle ==
    1

\* ------------------------------------------------------------------------
\* Integer helpers.
\* ------------------------------------------------------------------------
MinValue(a, b) == IF a < b THEN a ELSE b
MaxValue(a, b) == IF a > b THEN a ELSE b

\* std::uint8_t(x)
Uint8(x) == x % 256

\* std::uint32_t(x): x mod 2^32 computed on 16-bit halves.
Uint32(x) == ((x \div 65536) % 65536) * 65536 + (x % 65536)

\* ------------------------------------------------------------------------
\* Ip4Addr: four octets, most significant first.
\* ------------------------------------------------------------------------
Ip4Addr(a, b, c, d) == <<a, b, c, d>>
ZeroAddr == Ip4Addr(0, 0, 0, 0)
AllOnesAddr == Ip4Addr(255, 255, 255, 255)

RECURSIVE Pow2(_)
Pow2(n) == IF n = 0 THEN 1 ELSE 2 * Pow2(n - 1)

\* The top n bits of one octet set.
OctetMask(n) == 256 - Pow2(8 - n)

\* Bitwise and/or of two octets.
RECURSIVE BitAnd(_, _, _)
BitAnd(x, y, n) ==
    IF n = 0 THEN 0
    ELSE 2 * BitAnd(x \div 2, y \div 2, n - 1) + (IF x % 2 = 1 /\ y % 2 = 1 THEN 1 ELSE 0)
RECURSIVE BitOr(_, _, _)
BitOr(x, y, n) ==
    IF n = 0 THEN 0
    ELSE 2 * BitOr(x \div 2, y \div 2, n - 1) + (IF x % 2 = 1 \/ y % 2 = 1 THEN 1 ELSE 0)

AddrAnd(x, y) == [i \in 1..4 |-> BitAnd(x[i], y[i], 8)]
AddrOr(x, y) == [i \in 1..4 |-> BitOr(x[i], y[i], 8)]
AddrNot(x) == [i \in 1..4 |-> 255 - x[i]]

\* operator< of Ip4Addr: comparison of the 32-bit values.
AddrLess(x, y) ==
    \E i \in 1..4 : x[i] < y[i] /\ \A j \in 1..(i - 1) : x[j] = y[j]

\* Ip4Addr::PrefixMask(n): n ones followed by zeros.
PrefixMask(n) ==
    [i \in 1..4 |-> OctetMask(MaxValue(0, MinValue(8, n - 8 * (i - 1))))]

\* Leading ones of one octet.
RECURSIVE OctetLeadingOnes(_, _)
OctetLeadingOnes(x, n) ==
    IF n = 0 \/ x < 128 THEN 0 ELSE 1 + OctetLeadingOnes((2 * x) % 256, n - 1)

\* Ip4Addr::countLeadingOnes
countLeadingOnes(x) ==
    IF x[1] # 255 THEN OctetLeadingOnes(x[1], 8)
    ELSE IF x[2] # 255 THEN 8 + OctetLeadingOnes(x[2], 8)
    ELSE IF x[3] # 255 THEN 16 + OctetLeadingOnes(x[3], 8)
    ELSE 24 + OctetLeadingOnes(x[4], 8)

\* Ip4Addr::Join(mask, first, second) = (first & mask) | (second & ~mask)
AddrJoin(mask, first, second) ==
    AddrOr(AddrAnd(first, mask), AddrAnd(second, AddrNot(mask)))

\* ------------------------------------------------------------------------
\* Time conversions.
\* ------------------------------------------------------------------------
\* SecToTicksNoAssert: seconds * TimeType(Platform::TimeFreq).
SecToTicksNoAssert(seconds) == seconds * TimeFreq

\* TicksToSec: ticks to seconds, rounding down.  (The clamp to 2^32-1 cannot
\* apply: tick counts of the model are below 2^31.)
TicksToSec(ticks) == ticks \div TimeFreq

\* DefaultRenewTimeForLeaseTime
DefaultRenewTimeForLeaseTime(lease_time_s) == lease_time_s \div 2

\* std::uint32_t(std::uint64_t(x) * 7 / 8) for the 32-bit x given as its 16-bit
\* halves <<low, high>>, computed on 16-bit limbs as 64-bit arithmetic does:
\* the product has three limbs (the third is the carry out of 32 bits), and
\* the division by 8 shifts all three right by three bits.
Uint64Mul7Div8(x) ==
    LET p0 == x[1] * 7
        p1 == x[2] * 7 + p0 \div 65536
        d0 == p0 % 65536
        d1 == p1 % 65536
        d2 == p1 \div 65536
    IN  <<d0 \div 8 + (d1 % 8) * 8192, d1 \div 8 + (d2 % 8) * 8192>>

\* Variant of DefaultRebindingTimeForLeaseTime that multiplies in 32 bits: the
\* carry out of 32 bits is lost.
DefaultRebindingTimeForLeaseTime_uint32(lease_time_s) ==
    LET p0 == (lease_time_s % 65536) * 7
        p1 == (lease_time_s \div 65536) * 7 + p0 \div 65536
        d0 == p0 % 65536
        d1 == p1 % 65536
    IN  (d1 \div 8) * 65536 + d0 \div 8 + (d1 % 8) * 8192

\* DefaultRebindingTimeForLeaseTime: uint32(uint64(lease_time_s) * 7 / 8).
DefaultRebindingTimeForLeaseTime(lease_time_s) ==
    LET r == Uint64Mul7Div8(<<lease_time_s % 65536, lease_time_s \div 65536>>)
    IN  r[2] * 65536 + r[1]

\* ------------------------------------------------------------------------
\* Collaborators: effects log, assertions, timer, ARP observer, interface.
\* ------------------------------------------------------------------------
\* Append one effect to the handler's log.
Log(s, e) == [s EXCEPT !.effects = Append(@, e)]

\* AIPSTACK_ASSERT(cond): a failed assertion is remembered.
AIPSTACK_ASSERT(s, cond) == IF cond THEN s ELSE [s EXCEPT !.assert_failed = TRUE]

\* m_state = st
set_state(s, st) == Log([s EXCEPT !.m_state = st], [op |-> "state", to |-> st])

\* m_timer.setAt(t)
timer_setAt(s, t) ==
    Log([s EXCEPT !.timer_set = TRUE, !.timer_time = t], [op |-> "timer_set", at |-> t])

\* m_timer.setAfter(SecToTicks(seconds)), with SecToTicks' assertion.
timer_setAfterSec(s, seconds) ==
    timer_setAt(AIPSTACK_ASSERT(s, seconds <= MaxTimerSeconds),
                s.now + SecToTicksNoAssert(seconds))

\* m_timer.unset()
timer_unset(s) ==
    Log([s EXCEPT !.timer_set = FALSE, !.timer_time = 0], [op |-> "timer_unset"])

\* m_arp_observer.observe(*ethHw()): must not be called when already observing.
arp_observe(s) ==
    Log([AIPSTACK_ASSERT(s, ~s.arp_observing) EXCEPT !.arp_observing = TRUE],
        [op |-> "arp_observe"])

\* m_arp_observer.reset()
arp_reset(s) == Log([s EXCEPT !.arp_observing = FALSE], [op |-> "arp_reset"])

\* ethHw()->sendArpQuery(ip)
sendArpQuery(s, ip) == Log(s, [op |-> "arp_query", ip |-> ip])

\* IpSendRetryRequest::reset()
retry_reset(s) == Log([s EXCEPT !.retry_pending = FALSE], [op |-> "retry_reset"])

\* The interface's IPv4 settings when nothing is assigned.
NoAddr == [present |-> FALSE, prefix |-> 0, addr |-> ZeroAddr]
NoGateway == [present |-> FALSE, addr |-> ZeroAddr]

\* iface()->setIp4Addr(setting)
setIp4Addr(s, setting) ==
    Log([s EXCEPT !.iface_addr = setting], [op |-> "set_addr", present |-> setting.present])

\* iface()->setIp4Gateway(setting)
setIp4Gateway(s, setting) ==
    Log([s EXCEPT !.iface_gw = setting], [op |-> "set_gateway", present |-> setting.present])

\* m_handler(event_type), called only when a handler was given.  The log entry
\* keeps the client as the callback finds it (but for whether the datagram just
\* sent waits for a retry, which SendOutcomes settles afterwards).
call_handler(s, event_type) ==
    Log(s, [op |-> "callback", event |-> event_type,
            then |-> [s EXCEPT !.effects = << >>, !.retry_pending = FALSE]])

\* ------------------------------------------------------------------------
\* IpDhcpClient: public query.
\* ------------------------------------------------------------------------
hasLease(s) == s.m_state \in {"Bound", "Renewing", "Rebinding"}

\* ------------------------------------------------------------------------
\* Sending.
\* ------------------------------------------------------------------------
\* A default-constructed DhcpSendOptions.
DhcpSendOptions ==
    [have |-> {}, dhcp_server_identifier |-> 0, requested_ip_address |-> ZeroAddr,
     message |-> ""]

\* Variant of send_dhcp_message that adds the vendor class identifier to a
\* DECLINE too.
send_dhcp_message_vendor_always(s, msg_type, opts, ciaddr, dst_addr) ==
    LET s1 == retry_reset(s)
        have ==
            opts.have
            \cup (IF s.m_client_id THEN {"client_identifier"} ELSE {})
            \cup (IF s.m_vendor_class_id
                  THEN {"vendor_class_identifier"} ELSE {})
            \cup (IF msg_type # "Decline"
                  THEN {"max_dhcp_message_size", "parameter_request_list"} ELSE {})
        dgram ==
            [op |-> "send", type |-> msg_type, xid |-> s.m_xid, ciaddr |-> ciaddr,
             src_addr |-> ciaddr, dst_addr |-> dst_addr,
             allow_nonlocal_src |-> (ciaddr = ZeroAddr),
             opts |-> [opts EXCEPT !.have = have], in_state |-> s.m_state]
    IN  \* Whether sendUdpIp4Packet registers the retry request (the datagram has
        \* to wait for ARP resolution) is the transport's choice: see SendOutcomes.
        Log(s1, dgram)

send_dhcp_message(s, msg_type, opts, ciaddr, dst_addr) ==
    LET s1 == retry_reset(s)
        have ==
            opts.have
            \cup (IF s.m_client_id THEN {"client_identifier"} ELSE {})
            \cup (IF s.m_vendor_class_id /\ msg_type # "Decline"
                  THEN {"vendor_class_identifier"} ELSE {})
            \cup (IF msg_type # "Decline"
                  THEN {"max_dhcp_message_size", "parameter_request_list"} ELSE {})
        dgram ==
            [op |-> "send", type |-> msg_type, xid |-> s.m_xid, ciaddr |-> ciaddr,
             src_addr |-> ciaddr, dst_addr |-> dst_addr,
             allow_nonlocal_src |-> (ciaddr = ZeroAddr),
             opts |-> [opts EXCEPT !.have = have], in_state |-> s.m_state]
    IN  \* Whether sendUdpIp4Packet registers the retry request (the datagram has
        \* to wait for ARP resolution) is the transport's choice: see SendOutcomes.
        Log(s1, dgram)

send_discover(s) ==
    send_dhcp_message(AIPSTACK_ASSERT(s, s.m_state = "Selecting"),
                      "Discover", DhcpSendOptions, ZeroAddr, AllOnesAddr)

\* Variant of send_request that broadcasts the REQUEST in every state.
send_request_broadcast(s) ==
    LET s1 == AIPSTACK_ASSERT(s, s.m_state \in
                  {"Requesting", "Renewing", "Rebinding", "Rebooting"})
        o1 == IF s.m_state = "Requesting"
              THEN [DhcpSendOptions EXCEPT
                      !.have = @ \cup {"dhcp_server_identifier"},
                      !.dhcp_server_identifier = s.m_info.dhcp_server_identifier]
              ELSE DhcpSendOptions
        dst_addr == AllOnesAddr
        req == s.m_state \in {"Requesting", "Rebooting"}
        o2 == IF req
              THEN [o1 EXCEPT !.have = @ \cup {"requested_ip_address"},
                              !.requested_ip_address = s.m_info.ip_address]
              ELSE o1
        ciaddr == IF req THEN ZeroAddr ELSE s.m_info.ip_address
    IN  send_dhcp_message(s1, "Request", o2, ciaddr, dst_addr)

send_request(s) ==
    LET s1 == AIPSTACK_ASSERT(s, s.m_state \in
                  {"Requesting", "Renewing", "Rebinding", "Rebooting"})
        o1 == IF s.m_state = "Requesting"
              THEN [DhcpSendOptions EXCEPT
                      !.have = @ \cup {"dhcp_server_identifier"},
                      !.dhcp_server_identifier = s.m_info.dhcp_server_identifier]
              ELSE DhcpSendOptions
        dst_addr == IF s.m_state = "Renewing" THEN s.m_info.dhcp_server_addr
                    ELSE AllOnesAddr
        req == s.m_state \in {"Requesting", "Rebooting"}
        o2 == IF req
              THEN [o1 EXCEPT !.have = @ \cup {"requested_ip_address"},
                              !.requested_ip_address = s.m_info.ip_address]
              ELSE o1
        ciaddr == IF req THEN ZeroAddr ELSE s.m_info.ip_address
    IN  send_dhcp_message(s1, "Request", o2, ciaddr, dst_addr)

send_decline(s) ==
    LET s1 == AIPSTACK_ASSERT(s, s.m_state = "Checking")
        o == [have |-> {"dhcp_server_identifier", "requested_ip_address", "message"},
              dhcp_server_identifier |-> s.m_info.dhcp_server_identifier,
              requested_ip_address |-> s.m_info.ip_address,
              message |-> "ArpResponse"]
    IN  send_dhcp_message(s1, "Decline", o, ZeroAddr, AllOnesAddr)

\* m_xid = std::uint32_t(platform().getTime())
new_xid(s) == Log([s EXCEPT !.m_xid = Uint32(s.now)], [op |-> "new_xid"])

\* ------------------------------------------------------------------------
\* Retransmission timeout.
\* ------------------------------------------------------------------------
reset_rtx_timeout(s) == [s EXCEPT !.m_rtx_timeout = BaseRtxTimeoutSeconds]

\* Variant of double_rtx_timeout that forgets the cap at MaxRtxTimeoutSeconds.
double_rtx_timeout_uncapped(s) ==
    [s EXCEPT !.m_rtx_timeout = Uint8(2 * s.m_rtx_timeout)]

double_rtx_timeout(s) ==
    [s EXCEPT !.m_rtx_timeout =
        IF s.m_rtx_timeout > MaxRtxTimeoutSeconds \div 2
        THEN MaxRtxTimeoutSeconds
        ELSE Uint8(2 * s.m_rtx_timeout)]

set_timer_for_rtx(s) == timer_setAfterSec(s, s.m_rtx_timeout)

\* ------------------------------------------------------------------------
\* Interface configuration and user callback.
\* ------------------------------------------------------------------------
\* Variant of handle_dhcp_up that mixes up the two events.
handle_dhcp_up_swapped(s, renewed) ==
    LET prefix == Uint8(countLeadingOnes(s.m_info.subnet_mask))
        s1 == setIp4Addr(s, [present |-> TRUE, prefix |-> prefix,
                             addr |-> s.m_info.ip_address])
        gateway == IF s.m_info.have_router
                   THEN [present |-> TRUE, addr |-> s.m_info.router]
                   ELSE NoGateway
        s2 == setIp4Gateway(s1, gateway)
    IN  IF s.m_handler
        THEN call_handler(s2, IF renewed THEN "LeaseObtained" ELSE "LeaseRenewed")
        ELSE s2

handle_dhcp_up(s, renewed) ==
    LET prefix == Uint8(countLeadingOnes(s.m_info.subnet_mask))
        s1 == setIp4Addr(s, [present |-> TRUE, prefix |-> prefix,
                             addr |-> s.m_info.ip_address])
        gateway == IF s.m_info.have_router
                   THEN [present |-> TRUE, addr |-> s.m_info.router]
                   ELSE NoGateway
        s2 == setIp4Gateway(s1, gateway)
    IN  IF s.m_handler
        THEN call_handler(s2, IF renewed THEN "LeaseRenewed" ELSE "LeaseObtained")
        ELSE s2

\* Variant of handle_dhcp_down that reports LeaseLost whatever the cause.
handle_dhcp_down_always_lost(s, call_callback, link_down) ==
    LET s1 == setIp4Gateway(s, NoGateway)
        s2 == setIp4Addr(s1, NoAddr)
    IN  IF call_callback /\ s.m_handler
        THEN call_handler(s2, "LeaseLost")
        ELSE s2

handle_dhcp_down(s, call_callback, link_down) ==
    LET s1 == setIp4Gateway(s, NoGateway)
        s2 == setIp4Addr(s1, NoAddr)
    IN  IF call_callback /\ s.m_handler
        THEN call_handler(s2, IF link_down THEN "LinkDown" ELSE "LeaseLost")
        ELSE s2

\* ------------------------------------------------------------------------
\* Starting discovery.
\* ------------------------------------------------------------------------
\* Variant of start_discovery_or_rebooting that never reboots with a
\* remembered address.
start_discovery_or_rebooting_forgetful(s) ==
    LET s1 == [new_xid(s) EXCEPT !.m_request_count = 1]
        s2 == send_discover(set_state(s1, "Selecting"))
    IN  set_timer_for_rtx(reset_rtx_timeout(s2))

\* Variant of start_discovery_or_rebooting that sends the DISCOVER before it
\* sets the state.
start_discovery_or_rebooting_sends_first(s) ==
    LET s1 == [new_xid(s) EXCEPT !.m_request_count = 1]
        s2 == IF s1.m_info.ip_address = ZeroAddr
              THEN set_state(send_discover(s1), "Selecting")
              ELSE send_request(
                     [set_state(s1, "Rebooting") EXCEPT !.m_request_send_time = s.now])
    IN  set_timer_for_rtx(reset_rtx_timeout(s2))

\* Variant of start_discovery_or_rebooting that enters SELECTING without
\* sending a DISCOVER.
start_discovery_or_rebooting_silent(s) ==
    LET s1 == [new_xid(s) EXCEPT !.m_request_count = 1]
        s2 == IF s1.m_info.ip_address = ZeroAddr
              THEN set_state(s1, "Selecting")
              ELSE send_request(
                     [set_state(s1, "Rebooting") EXCEPT !.m_request_send_time = s.now])
    IN  set_timer_for_rtx(reset_rtx_timeout(s2))

start_discovery_or_rebooting(s) ==
    LET s1 == [new_xid(s) EXCEPT !.m_request_count = 1]
        s2 == IF s1.m_info.ip_address = ZeroAddr
              THEN send_discover(set_state(s1, "Selecting"))
              ELSE send_request(
                     [set_state(s1, "Rebooting") EXCEPT !.m_request_send_time = s.now])
    IN  set_timer_for_rtx(reset_rtx_timeout(s2))

start_discovery(s) ==
    start_discovery_or_rebooting([s EXCEPT !.m_info.ip_address = ZeroAddr])

\* Variant of handle_expired_lease that notifies the user before it restarts
\* discovery.
handle_expired_lease_callback_first(s, had_lease) ==
    LET s1 == IF had_lease THEN handle_dhcp_down(s, TRUE, FALSE) ELSE s
    IN  start_discovery(s1)

\* Variant of handle_expired_lease that leaves the IP configuration in place.
handle_expired_lease_keeps_address(s, had_lease) == start_discovery(s)

handle_expired_lease(s, had_lease) ==
    LET s1 == start_discovery(s)
    IN  IF had_lease THEN handle_dhcp_down(s1, TRUE, FALSE) ELSE s1

\* Variant of go_resetting that asks hasLease() only after the state has changed.
go_resetting_late_check(s, discover_immediately) ==
    LET s1 == IF discover_immediately
              THEN start_discovery(s)
              ELSE timer_setAfterSec(set_state(s, "Resetting"), ResetTimeoutSeconds)
        had_lease == hasLease(s1)
    IN  IF had_lease THEN handle_dhcp_down(s1, TRUE, FALSE) ELSE s1

\* Variant of go_resetting that always restarts discovery at once.
go_resetting_always_immediate(s, discover_immediately) ==
    LET had_lease == hasLease(s)
        s1 == start_discovery(s)
    IN  IF had_lease THEN handle_dhcp_down(s1, TRUE, FALSE) ELSE s1

\* Variant of go_resetting that always passes through RESETTING.
go_resetting_never_immediate(s, discover_immediately) ==
    LET had_lease == hasLease(s)
        s1 == timer_setAfterSec(set_state(s, "Resetting"), ResetTimeoutSeconds)
    IN  IF had_lease THEN handle_dhcp_down(s1, TRUE, FALSE) ELSE s1

go_resetting(s, discover_immediately) ==
    LET had_lease == hasLease(s)
        s1 == IF discover_immediately
              THEN start_discovery(s)
              ELSE timer_setAfterSec(set_state(s, "Resetting"), ResetTimeoutSeconds)
    IN  IF had_lease THEN handle_dhcp_down(s1, TRUE, FALSE) ELSE s1

go_checking(s) ==
    LET s1 == [set_state(s, "Checking") EXCEPT !.m_request_count = 1]
        s2 == arp_observe(s1)
        s3 == timer_setAfterSec(s2, ArpResponseTimeoutSeconds)
    IN  sendArpQuery(s3, s3.m_info.ip_address)

\* Variant of go_bound that does not compare the time passed since the request
\* with the lease time.
go_bound_no_expiry(s) ==
    LET s0 == AIPSTACK_ASSERT(s, s.m_state \in
                  {"Checking", "Renewing", "Rebinding", "Rebooting"})
        had_lease == hasLease(s)
        passed == TicksToSec(s.now - s.m_request_send_time)
        s2 == set_state([s0 EXCEPT !.m_lease_time_passed = passed], "Bound")
        rel0 == IF passed <= s.m_info.renewal_time_s
                THEN s.m_info.renewal_time_s - passed
                ELSE 0
        timer_rel_sec == MinValue(rel0, MaxTimerSeconds)
        s3 == [s2 EXCEPT !.m_lease_time_passed = passed + timer_rel_sec]
        timer_time == s.m_request_send_time
                      + SecToTicksNoAssert(s3.m_lease_time_passed)
    IN  handle_dhcp_up(timer_setAt(s3, timer_time), had_lease)

\* Variant of go_bound that counts the renewal time from the current time
\* instead of from the time the request was sent.
go_bound_from_now(s) ==
    LET s0 == AIPSTACK_ASSERT(s, s.m_state \in
                  {"Checking", "Renewing", "Rebinding", "Rebooting"})
        had_lease == hasLease(s)
        now == s.now
        passed == TicksToSec(now - s.m_request_send_time)
        s1 == [s0 EXCEPT !.m_lease_time_passed = passed]
    IN  IF passed >= s.m_info.lease_time_s
        THEN handle_expired_lease(s1, had_lease)
        ELSE LET s2 == set_state(s1, "Bound")
                 rel0 == IF passed <= s.m_info.renewal_time_s
                         THEN s.m_info.renewal_time_s - passed
                         ELSE 0
                 timer_rel_sec == MinValue(rel0, MaxTimerSeconds)
                 s3 == [s2 EXCEPT !.m_lease_time_passed = timer_rel_sec]
                 timer_time == now + SecToTicksNoAssert(timer_rel_sec)
             IN  handle_dhcp_up(timer_setAt(s3, timer_time), had_lease)

go_bound(s) ==
    LET s0 == AIPSTACK_ASSERT(s, s.m_state \in
                  {"Checking", "Renewing", "Rebinding", "Rebooting"})
        had_lease == hasLease(s)
        now == s.now
        passed == TicksToSec(now - s.m_request_send_time)
        s1 == [s0 EXCEPT !.m_lease_time_passed = passed]
    IN  IF passed >= s.m_info.lease_time_s
        THEN handle_expired_lease(s1, had_lease)
        ELSE LET s2 == set_state(s1, "Bound")
                 rel0 == IF passed <= s.m_info.renewal_time_s
                         THEN s.m_info.renewal_time_s - passed
                         ELSE 0
                 timer_rel_sec == MinValue(rel0, MaxTimerSeconds)
                 s3 == [s2 EXCEPT !.m_lease_time_passed = passed + timer_rel_sec]
                 timer_time == s.m_request_send_time
                               + SecToTicksNoAssert(s3.m_lease_time_passed)
             IN  handle_dhcp_up(timer_setAt(s3, timer_time), had_lease)

\* ------------------------------------------------------------------------
\* Timer handlers.
\* ------------------------------------------------------------------------
\* Variant of handleTimerResetting that keeps the remembered address.
handleTimerResetting_keeps_address(s) == start_discovery_or_rebooting(s)

\* Variant of handleTimerResetting that waits for another ResetTimeoutSeconds
\* instead of starting discovery.
handleTimerResetting_waits(s) == timer_setAfterSec(s, ResetTimeoutSeconds)

handleTimerResetting(s) == start_discovery(s)

\* Variant of handleTimerSelecting that uses an XID for one send more.
handleTimerSelecting_late_xid(s) ==
    LET s1 == IF s.m_request_count > XidReuseMax
              THEN new_xid([s EXCEPT !.m_request_count = 1])
              ELSE [s EXCEPT !.m_request_count = Uint8(@ + 1)]
    IN  set_timer_for_rtx(double_rtx_timeout(send_discover(s1)))

handleTimerSelecting(s) ==
    LET s1 == IF s.m_request_count >= XidReuseMax
              THEN new_xid([s EXCEPT !.m_request_count = 1])
              ELSE [s EXCEPT !.m_request_count = Uint8(@ + 1)]
    IN  set_timer_for_rtx(double_rtx_timeout(send_discover(s1)))

\* Variant of handleTimerRebootingRequesting that gives up one request later.
handleTimerRebootingRequesting_one_more(s) ==
    LET limit == IF s.m_state = "Rebooting" THEN MaxRebootRequests ELSE MaxRequests
    IN  IF s.m_request_count > limit
        THEN start_discovery(s)
        ELSE LET s1 == [s EXCEPT !.m_request_count = Uint8(@ + 1)]
             IN  set_timer_for_rtx(double_rtx_timeout(send_request(s1)))

\* Variant of handleTimerRebootingRequesting that takes the time of each
\* retransmission as the send time of the request.
handleTimerRebootingRequesting_restamp(s) ==
    LET limit == IF s.m_state = "Rebooting" THEN MaxRebootRequests ELSE MaxRequests
    IN  IF s.m_request_count >= limit
        THEN start_discovery(s)
        ELSE LET s1 == [s EXCEPT !.m_request_count = Uint8(@ + 1),
                                 !.m_request_send_time = s.now]
             IN  set_timer_for_rtx(double_rtx_timeout(send_request(s1)))

\* Variant of handleTimerRebootingRequesting that takes a new XID for each
\* retransmission.
handleTimerRebootingRequesting_new_xid(s) ==
    LET limit == IF s.m_state = "Rebooting" THEN MaxRebootRequests ELSE MaxRequests
    IN  IF s.m_request_count >= limit
        THEN start_discovery(s)
        ELSE LET s1 == new_xid([s EXCEPT !.m_request_count = Uint8(@ + 1)])
             IN  set_timer_for_rtx(double_rtx_timeout(send_request(s1)))

handleTimerRebootingRequesting(s) ==
    LET limit == IF s.m_state = "Rebooting" THEN MaxRebootRequests ELSE MaxRequests
    IN  IF s.m_request_count >= limit
        THEN start_discovery(s)
        ELSE LET s1 == [s EXCEPT !.m_request_count = Uint8(@ + 1)]
             IN  set_timer_for_rtx(double_rtx_timeout(send_request(s1)))

\* Variant of handleTimerChecking that sends one ARP query more.
handleTimerChecking_one_more(s) ==
    IF s.m_request_count <= NumArpQueries
    THEN LET s1 == [s EXCEPT !.m_request_count = Uint8(@ + 1)]
             s2 == timer_setAfterSec(s1, ArpResponseTimeoutSeconds)
         IN  sendArpQuery(s2, s2.m_info.ip_address)
    ELSE go_bound(arp_reset(s))

handleTimerChecking(s) ==
    IF s.m_request_count < NumArpQueries
    THEN LET s1 == [s EXCEPT !.m_request_count = Uint8(@ + 1)]
             s2 == timer_setAfterSec(s1, ArpResponseTimeoutSeconds)
         IN  sendArpQuery(s2, s2.m_info.ip_address)
    ELSE go_bound(arp_reset(s))

\* Variant of handleTimerBoundRenewingRebinding that keeps the XID when it
\* changes the state.
handleTimerBoundRenewingRebinding_same_xid(s) ==
    IF ~(s.m_lease_time_passed <= s.m_info.lease_time_s)
    THEN \* The assertion at the top fails.
         AIPSTACK_ASSERT(s, FALSE)
    ELSE
    LET now == s.now
        passed_sec == TicksToSec(now - s.timer_time)
    IN  IF passed_sec >= s.m_info.lease_time_s - s.m_lease_time_passed
        THEN handle_expired_lease(s, TRUE)
        ELSE
        LET prev_lease_time_passed == s.m_lease_time_passed
            s1 == [s EXCEPT !.m_lease_time_passed = Uint32(@ + passed_sec)]
            s2 == IF s1.m_state # "Rebinding"
                     /\ s1.m_lease_time_passed >= s1.m_info.rebinding_time_s
                  THEN set_state(s1, "Rebinding")
                  ELSE IF s1.m_state = "Bound"
                          /\ s1.m_lease_time_passed >= s1.m_info.renewal_time_s
                  THEN set_state(s1, "Renewing")
                  ELSE s1
            next_state_sec == IF s2.m_state = "Renewing"
                              THEN s2.m_info.rebinding_time_s
                              ELSE s2.m_info.lease_time_s
            next_state_rel_sec == next_state_sec - s2.m_lease_time_passed
            rtx_rel_sec == MaxValue(MinRenewRtxTimeoutSeconds, next_state_rel_sec \div 2)
            rel0 == IF s2.m_state = "Bound"
                    THEN s2.m_info.renewal_time_s - s2.m_lease_time_passed
                    ELSE MinValue(next_state_rel_sec, rtx_rel_sec)
            s3 == IF s2.m_state = "Bound"
                  THEN s2
                  ELSE [send_request(s2) EXCEPT
                          !.m_request_send_time = now,
                          !.m_request_send_time_passed = s2.m_lease_time_passed]
            timer_rel_sec == MinValue(rel0, MaxTimerSeconds)
            s4 == [s3 EXCEPT !.m_lease_time_passed = Uint32(@ + timer_rel_sec)]
            timer_time == s.timer_time
                + SecToTicksNoAssert(s4.m_lease_time_passed - prev_lease_time_passed)
        IN  timer_setAt(s4, timer_time)

\* Variant of handleTimerBoundRenewingRebinding that retransmits after half
\* the time to the next state, however short.
handleTimerBoundRenewingRebinding_half_only(s) ==
    IF ~(s.m_lease_time_passed <= s.m_info.lease_time_s)
    THEN \* The assertion at the top fails.
         AIPSTACK_ASSERT(s, FALSE)
    ELSE
    LET now == s.now
        passed_sec == TicksToSec(now - s.timer_time)
    IN  IF passed_sec >= s.m_info.lease_time_s - s.m_lease_time_passed
        THEN handle_expired_lease(s, TRUE)
        ELSE
        LET prev_lease_time_passed == s.m_lease_time_passed
            s1 == [s EXCEPT !.m_lease_time_passed = Uint32(@ + passed_sec)]
            s2 == IF s1.m_state # "Rebinding"
                     /\ s1.m_lease_time_passed >= s1.m_info.rebinding_time_s
                  THEN new_xid(set_state(s1, "Rebinding"))
                  ELSE IF s1.m_state = "Bound"
                          /\ s1.m_lease_time_passed >= s1.m_info.renewal_time_s
                  THEN new_xid(set_state(s1, "Renewing"))
                  ELSE s1
            next_state_sec == IF s2.m_state = "Renewing"
                              THEN s2.m_info.rebinding_time_s
                              ELSE s2.m_info.lease_time_s
            next_state_rel_sec == next_state_sec - s2.m_lease_time_passed
            rtx_rel_sec == next_state_rel_sec \div 2
            rel0 == IF s2.m_state = "Bound"
                    THEN s2.m_info.renewal_time_s - s2.m_lease_time_passed
                    ELSE MinValue(next_state_rel_sec, rtx_rel_sec)
            s3 == IF s2.m_state = "Bound"
                  THEN s2
                  ELSE [send_request(s2) EXCEPT
                          !.m_request_send_time = now,
                          !.m_request_send_time_passed = s2.m_lease_time_passed]
            timer_rel_sec == MinValue(rel0, MaxTimerSeconds)
            s4 == [s3 EXCEPT !.m_lease_time_passed = Uint32(@ + timer_rel_sec)]
            timer_time == s.timer_time
                + SecToTicksNoAssert(s4.m_lease_time_passed - prev_lease_time_passed)
        IN  timer_setAt(s4, timer_time)

\* Variant of handleTimerBoundRenewingRebinding that sets the timer relative
\* to the current time instead of the previous expiry time.
handleTimerBoundRenewingRebinding_from_now(s) ==
    IF ~(s.m_lease_time_passed <= s.m_info.lease_time_s)
    THEN \* The assertion at the top fails.
         AIPSTACK_ASSERT(s, FALSE)
    ELSE
    LET now == s.now
        passed_sec == TicksToSec(now - s.timer_time)
    IN  IF passed_sec >= s.m_info.lease_time_s - s.m_lease_time_passed
        THEN handle_expired_lease(s, TRUE)
        ELSE
        LET prev_lease_time_passed == s.m_lease_time_passed
            s1 == [s EXCEPT !.m_lease_time_passed = Uint32(@ + passed_sec)]
            s2 == IF s1.m_state # "Rebinding"
                     /\ s1.m_lease_time_passed >= s1.m_info.rebinding_time_s
                  THEN new_xid(set_state(s1, "Rebinding"))
                  ELSE IF s1.m_state = "Bound"
                          /\ s1.m_lease_time_passed >= s1.m_info.renewal_time_s
                  THEN new_xid(set_state(s1, "Renewing"))
                  ELSE s1
            next_state_sec == IF s2.m_state = "Renewing"
                              THEN s2.m_info.rebinding_time_s
                              ELSE s2.m_info.lease_time_s
            next_state_rel_sec == next_state_sec - s2.m_lease_time_passed
            rtx_rel_sec == MaxValue(MinRenewRtxTimeoutSeconds, next_state_rel_sec \div 2)
            rel0 == IF s2.m_state = "Bound"
                    THEN s2.m_info.renewal_time_s - s2.m_lease_time_passed
                    ELSE MinValue(next_state_rel_sec, rtx_rel_sec)
            s3 == IF s2.m_state = "Bound"
                  THEN s2
                  ELSE [send_request(s2) EXCEPT
                          !.m_request_send_time = now,
                          !.m_request_send_time_passed = s2.m_lease_time_passed]
            timer_rel_sec == MinValue(rel0, MaxTimerSeconds)
            s4 == [s3 EXCEPT !.m_lease_time_passed = Uint32(@ + timer_rel_sec)]
            timer_time == now + SecToTicksNoAssert(timer_rel_sec)
        IN  timer_setAt(s4, timer_time)

\* Variant of handleTimerBoundRenewingRebinding that does not limit the timer
\* interval to MaxTimerSeconds.
handleTimerBoundRenewingRebinding_unlimited(s) ==
    IF ~(s.m_lease_time_passed <= s.m_info.lease_time_s)
    THEN \* The assertion at the top fails.
         AIPSTACK_ASSERT(s, FALSE)
    ELSE
    LET now == s.now
        passed_sec == TicksToSec(now - s.timer_time)
    IN  IF passed_sec >= s.m_info.lease_time_s - s.m_lease_time_passed
        THEN handle_expired_lease(s, TRUE)
        ELSE
        LET prev_lease_time_passed == s.m_lease_time_passed
            s1 == [s EXCEPT !.m_lease_time_passed = Uint32(@ + passed_sec)]
            s2 == IF s1.m_state # "Rebinding"
                     /\ s1.m_lease_time_passed >= s1.m_info.rebinding_time_s
                  THEN new_xid(set_state(s1, "Rebinding"))
                  ELSE IF s1.m_state = "Bound"
                          /\ s1.m_lease_time_passed >= s1.m_info.renewal_time_s
                  THEN new_xid(set_state(s1, "Renewing"))
                  ELSE s1
            next_state_sec == IF s2.m_state = "Renewing"
                              THEN s2.m_info.rebinding_time_s
                              ELSE s2.m_info.lease_time_s
            next_state_rel_sec == next_state_sec - s2.m_lease_time_passed
            rtx_rel_sec == MaxValue(MinRenewRtxTimeoutSeconds, next_state_rel_sec \div 2)
            rel0 == IF s2.m_state = "Bound"
                    THEN s2.m_info.renewal_time_s - s2.m_lease_time_passed
                    ELSE MinValue(next_state_rel_sec, rtx_rel_sec)
            s3 == IF s2.m_state = "Bound"
                  THEN s2
                  ELSE [send_request(s2) EXCEPT
                          !.m_request_send_time = now,
                          !.m_request_send_time_passed = s2.m_lease_time_passed]
            timer_rel_sec == rel0
            s4 == [s3 EXCEPT !.m_lease_time_passed = Uint32(@ + timer_rel_sec)]
            timer_time == s.timer_time
                + SecToTicksNoAssert(s4.m_lease_time_passed - prev_lease_time_passed)
        IN  timer_setAt(s4, timer_time)

handleTimerBoundRenewingRebinding(s) ==
    IF ~(s.m_lease_time_passed <= s.m_info.lease_time_s)
    THEN \* The assertion at the top fails.
         AIPSTACK_ASSERT(s, FALSE)
    ELSE
    LET now == s.now
        passed_sec == TicksToSec(now - s.timer_time)
    IN  IF passed_sec >= s.m_info.lease_time_s - s.m_lease_time_passed
        THEN handle_expired_lease(s, TRUE)
        ELSE
        LET prev_lease_time_passed == s.m_lease_time_passed
            s1 == [s EXCEPT !.m_lease_time_passed = Uint32(@ + passed_sec)]
            s2 == IF s1.m_state # "Rebinding"
                     /\ s1.m_lease_time_passed >= s1.m_info.rebinding_time_s
                  THEN new_xid(set_state(s1, "Rebinding"))
                  ELSE IF s1.m_state = "Bound"
                          /\ s1.m_lease_time_passed >= s1.m_info.renewal_time_s
                  THEN new_xid(set_state(s1, "Renewing"))
                  ELSE s1
            next_state_sec == IF s2.m_state = "Renewing"
                              THEN s2.m_info.rebinding_time_s
                              ELSE s2.m_info.lease_time_s
            next_state_rel_sec == next_state_sec - s2.m_lease_time_passed
            rtx_rel_sec == MaxValue(MinRenewRtxTimeoutSeconds, next_state_rel_sec \div 2)
            rel0 == IF s2.m_state = "Bound"
                    THEN s2.m_info.renewal_time_s - s2.m_lease_time_passed
                    ELSE MinValue(next_state_rel_sec, rtx_rel_sec)
            s3 == IF s2.m_state = "Bound"
                  THEN s2
                  ELSE [send_request(s2) EXCEPT
                          !.m_request_send_time = now,
                          !.m_request_send_time_passed = s2.m_lease_time_passed]
            timer_rel_sec == MinValue(rel0, MaxTimerSeconds)
            s4 == [s3 EXCEPT !.m_lease_time_passed = Uint32(@ + timer_rel_sec)]
            timer_time == s.timer_time
                + SecToTicksNoAssert(s4.m_lease_time_passed - prev_lease_time_passed)
        IN  timer_setAt(s4, timer_time)

timerHandler(s) ==
    CASE s.m_state = "Resetting" -> handleTimerResetting(s)
      [] s.m_state = "Selecting" -> handleTimerSelecting(s)
      [] s.m_state \in {"Rebooting", "Requesting"} -> handleTimerRebootingRequesting(s)
      [] s.m_state = "Checking" -> handleTimerChecking(s)
      [] s.m_state \in {"Bound", "Renewing", "Rebinding"} ->
            handleTimerBoundRenewingRebinding(s)
      [] OTHER -> AIPSTACK_ASSERT(s, FALSE)

\* ------------------------------------------------------------------------
\* Send-retry callback.
\* ------------------------------------------------------------------------
\* Variant of retrySending that takes a new XID before it sends again.
retrySending_new_xid(s) ==
    IF s.m_state = "Selecting" THEN send_discover(new_xid(s))
    ELSE IF s.m_state \in {"Requesting", "Renewing", "Rebinding", "Rebooting"}
    THEN send_request(new_xid(s))
    ELSE s

retrySending(s) ==
    IF s.m_state = "Selecting" THEN send_discover(s)
    ELSE IF s.m_state \in {"Requesting", "Renewing", "Rebinding", "Rebooting"}
    THEN send_request(s)
    ELSE s

\* ------------------------------------------------------------------------
\* Validation of received address information.
\* ------------------------------------------------------------------------
\* Variant of checkOffer that lets a loopback address pass.
checkOffer_loopback(addr) ==
    /\ ~(addr = ZeroAddr \/ addr = AllOnesAddr)
    /\ AddrAnd(addr, PrefixMask(4)) # Ip4Addr(224, 0, 0, 0)

checkOffer(addr) ==
    /\ ~(addr = ZeroAddr \/ addr = AllOnesAddr)
    /\ AddrAnd(addr, PrefixMask(8)) # Ip4Addr(127, 0, 0, 0)
    /\ AddrAnd(addr, PrefixMask(4)) # Ip4Addr(224, 0, 0, 0)

\* Returns [ok, opts]: whether the ACK is acceptable and the fixed-up options.
\* Variant of checkAndFixupAck that does not raise the rebinding time to the
\* renewal time.
checkAndFixupAck_no_floor(addr, opts) ==
    LET reject == [ok |-> FALSE, opts |-> opts]
        classful == IF AddrLess(addr, Ip4Addr(128, 0, 0, 0)) THEN Ip4Addr(255, 0, 0, 0)
                    ELSE IF AddrLess(addr, Ip4Addr(192, 0, 0, 0)) THEN Ip4Addr(255, 255, 0, 0)
                    ELSE Ip4Addr(255, 255, 255, 0)
        subnet_mask == IF "subnet_mask" \in opts.have THEN opts.subnet_mask ELSE classful
        local_bcast == AddrJoin(subnet_mask, addr, AllOnesAddr)
        bad_router == /\ "router" \in opts.have
                      /\ AddrAnd(opts.router, subnet_mask) # AddrAnd(addr, subnet_mask)
        renewal0 == IF "renewal_time" \in opts.have THEN opts.renewal_time
                    ELSE DefaultRenewTimeForLeaseTime(opts.ip_address_lease_time)
        renewal_time == MinValue(opts.ip_address_lease_time, renewal0)
        rebinding0 == IF "rebinding_time" \in opts.have THEN opts.rebinding_time
                      ELSE DefaultRebindingTimeForLeaseTime(opts.ip_address_lease_time)
        rebinding_time == MinValue(opts.ip_address_lease_time, rebinding0)
    IN  IF ~checkOffer(addr) THEN reject
        ELSE IF "ip_address_lease_time" \notin opts.have THEN reject
        ELSE IF "subnet_mask" \notin opts.have
                /\ ~AddrLess(addr, Ip4Addr(224, 0, 0, 0)) THEN reject
        ELSE IF subnet_mask # PrefixMask(countLeadingOnes(subnet_mask)) THEN reject
        ELSE IF addr = local_bcast THEN reject
        ELSE [ok |-> TRUE,
              opts |-> [opts EXCEPT
                          !.subnet_mask = subnet_mask,
                          !.have = IF bad_router THEN @ \ {"router"} ELSE @,
                          !.renewal_time = renewal_time,
                          !.rebinding_time = rebinding_time]]

checkAndFixupAck(addr, opts) ==
    LET reject == [ok |-> FALSE, opts |-> opts]
        classful == IF AddrLess(addr, Ip4Addr(128, 0, 0, 0)) THEN Ip4Addr(255, 0, 0, 0)
                    ELSE IF AddrLess(addr, Ip4Addr(192, 0, 0, 0)) THEN Ip4Addr(255, 255, 0, 0)
                    ELSE Ip4Addr(255, 255, 255, 0)
        subnet_mask == IF "subnet_mask" \in opts.have THEN opts.subnet_mask ELSE classful
        local_bcast == AddrJoin(subnet_mask, addr, AllOnesAddr)
        bad_router == /\ "router" \in opts.have
                      /\ AddrAnd(opts.router, subnet_mask) # AddrAnd(addr, subnet_mask)
        renewal0 == IF "renewal_time" \in opts.have THEN opts.renewal_time
                    ELSE DefaultRenewTimeForLeaseTime(opts.ip_address_lease_time)
        renewal_time == MinValue(opts.ip_address_lease_time, renewal0)
        rebinding0 == IF "rebinding_time" \in opts.have THEN opts.rebinding_time
                      ELSE DefaultRebindingTimeForLeaseTime(opts.ip_address_lease_time)
        rebinding_time ==
            MaxValue(renewal_time, MinValue(opts.ip_address_lease_time, rebinding0))
    IN  IF ~checkOffer(addr) THEN reject
        ELSE IF "ip_address_lease_time" \notin opts.have THEN reject
        ELSE IF "subnet_mask" \notin opts.have
                /\ ~AddrLess(addr, Ip4Addr(224, 0, 0, 0)) THEN reject
        ELSE IF subnet_mask # PrefixMask(countLeadingOnes(subnet_mask)) THEN reject
        ELSE IF addr = local_bcast THEN reject
        ELSE [ok |-> TRUE,
              opts |-> [opts EXCEPT
                          !.subnet_mask = subnet_mask,
                          !.have = IF bad_router THEN @ \ {"router"} ELSE @,
                          !.renewal_time = renewal_time,
                          !.rebinding_time = rebinding_time]]

\* ------------------------------------------------------------------------
\* Receiving.
\* ------------------------------------------------------------------------
\* ethHw()->getMacAddr(): the interface's MAC address.
MacAddr == "02:00:00:00:00:01"

\* Variant of sane that does not look at the XID.
sane_any_xid(s, msg) ==
    /\ msg.op = "BootReply"
    /\ msg.htype = "Ethernet"
    /\ msg.hlen = 6
    /\ msg.chaddr = MacAddr

\* The simple checks of the first header part, the XID among them.
sane(s, msg) ==
    /\ msg.op = "BootReply"
    /\ msg.htype = "Ethernet"
    /\ msg.hlen = 6
    /\ msg.xid = s.m_xid
    /\ msg.chaddr = MacAddr

\* Variant of processReceivedDhcpMessage that, in REQUESTING, accepts an ACK
\* of the offered address from any server.
processReceivedDhcpMessage_any_server(s, src_addr, msg) ==
    LET opts == msg.opts
        ip_address == msg.yiaddr
        fix == checkAndFixupAck(ip_address, opts)
        fopts == fix.opts
    IN  IF s.m_state \in {"LinkDown", "Resetting", "Checking", "Bound"} THEN s
        ELSE IF ~msg.has_header THEN s
        ELSE IF ~sane(s, msg) THEN s
        ELSE IF ~msg.magic_ok THEN s
        ELSE IF ~msg.options_ok THEN s
        ELSE IF "dhcp_message_type" \notin opts.have
                \/ opts.dhcp_message_type \notin {"Offer", "Ack", "Nak"} THEN s
        ELSE IF "dhcp_server_identifier" \notin opts.have THEN s
        ELSE IF opts.dhcp_message_type = "Nak"
        THEN IF s.m_state \notin {"Requesting", "Renewing", "Rebinding", "Rebooting"}
             THEN s
             ELSE IF s.m_state = "Requesting"
                     /\ opts.dhcp_server_identifier # s.m_info.dhcp_server_identifier
             THEN s
             ELSE go_resetting(s, s.m_state # "Requesting")
        ELSE IF opts.dhcp_message_type = "Offer" /\ s.m_state = "Selecting"
        THEN IF ~checkOffer(ip_address) THEN s
             ELSE LET s1 == [s EXCEPT
                               !.m_info.ip_address = ip_address,
                               !.m_info.dhcp_server_identifier =
                                   opts.dhcp_server_identifier]
                      s2 == [set_state(s1, "Requesting") EXCEPT
                               !.m_request_send_time = s.now]
                      s3 == [send_request(s2) EXCEPT !.m_request_count = 1]
                  IN  set_timer_for_rtx(reset_rtx_timeout(s3))
        ELSE IF opts.dhcp_message_type = "Ack"
                /\ s.m_state \in {"Requesting", "Renewing", "Rebinding", "Rebooting"}
        THEN IF ~fix.ok THEN s
             ELSE IF s.m_state = "Requesting"
                     /\ ip_address # s.m_info.ip_address
             THEN s
             ELSE IF s.m_state \in {"Renewing", "Rebinding"}
                     /\ ~(s.m_lease_time_passed >= s.m_request_send_time_passed)
             THEN AIPSTACK_ASSERT(s, FALSE)
             ELSE IF s.m_state \in {"Renewing", "Rebinding"}
                     /\ s.m_lease_time_passed - s.m_request_send_time_passed
                            > MaxTimerSeconds
             THEN s
             ELSE LET s1 == [s EXCEPT !.m_info =
                               [ip_address |-> ip_address,
                                dhcp_server_identifier |-> fopts.dhcp_server_identifier,
                                dhcp_server_addr |-> src_addr,
                                lease_time_s |-> fopts.ip_address_lease_time,
                                renewal_time_s |-> fopts.renewal_time,
                                rebinding_time_s |-> fopts.rebinding_time,
                                subnet_mask |-> fopts.subnet_mask,
                                have_router |-> "router" \in fopts.have,
                                router |-> IF "router" \in fopts.have
                                           THEN fopts.router ELSE ZeroAddr]]
                  IN  IF s.m_state = "Requesting" THEN go_checking(s1) ELSE go_bound(s1)
        ELSE s

\* Variant of processReceivedDhcpMessage that takes an OFFER in REQUESTING as
\* well as in SELECTING.
processReceivedDhcpMessage_offer_anytime(s, src_addr, msg) ==
    LET opts == msg.opts
        ip_address == msg.yiaddr
        fix == checkAndFixupAck(ip_address, opts)
        fopts == fix.opts
    IN  IF s.m_state \in {"LinkDown", "Resetting", "Checking", "Bound"} THEN s
        ELSE IF ~msg.has_header THEN s
        ELSE IF ~sane(s, msg) THEN s
        ELSE IF ~msg.magic_ok THEN s
        ELSE IF ~msg.options_ok THEN s
        ELSE IF "dhcp_message_type" \notin opts.have
                \/ opts.dhcp_message_type \notin {"Offer", "Ack", "Nak"} THEN s
        ELSE IF "dhcp_server_identifier" \notin opts.have THEN s
        ELSE IF opts.dhcp_message_type = "Nak"
        THEN IF s.m_state \notin {"Requesting", "Renewing", "Rebinding", "Rebooting"}
             THEN s
             ELSE IF s.m_state = "Requesting"
                     /\ opts.dhcp_server_identifier # s.m_info.dhcp_server_identifier
             THEN s
             ELSE go_resetting(s, s.m_state # "Requesting")
        ELSE IF opts.dhcp_message_type = "Offer"
                /\ s.m_state \in {"Selecting", "Requesting"}
        THEN IF ~checkOffer(ip_address) THEN s
             ELSE LET s1 == [s EXCEPT
                               !.m_info.ip_address = ip_address,
                               !.m_info.dhcp_server_identifier =
                                   opts.dhcp_server_identifier]
                      s2 == [set_state(s1, "Requesting") EXCEPT
                               !.m_request_send_time = s.now]
                      s3 == [send_request(s2) EXCEPT !.m_request_count = 1]
                  IN  set_timer_for_rtx(reset_rtx_timeout(s3))
        ELSE IF opts.dhcp_message_type = "Ack"
                /\ s.m_state \in {"Requesting", "Renewing", "Rebinding", "Rebooting"}
        THEN IF ~fix.ok THEN s
             ELSE IF s.m_state = "Requesting"
                     /\ (ip_address # s.m_info.ip_address
                         \/ opts.dhcp_server_identifier # s.m_info.dhcp_server_identifier)
             THEN s
             ELSE IF s.m_state \in {"Renewing", "Rebinding"}
                     /\ ~(s.m_lease_time_passed >= s.m_request_send_time_passed)
             THEN AIPSTACK_ASSERT(s, FALSE)
             ELSE IF s.m_state \in {"Renewing", "Rebinding"}
                     /\ s.m_lease_time_passed - s.m_request_send_time_passed
                            > MaxTimerSeconds
             THEN s
             ELSE LET s1 == [s EXCEPT !.m_info =
                               [ip_address |-> ip_address,
                                dhcp_server_identifier |-> fopts.dhcp_server_identifier,
                                dhcp_server_addr |-> src_addr,
                                lease_time_s |-> fopts.ip_address_lease_time,
                                renewal_time_s |-> fopts.renewal_time,
                                rebinding_time_s |-> fopts.rebinding_time,
                                subnet_mask |-> fopts.subnet_mask,
                                have_router |-> "router" \in fopts.have,
                                router |-> IF "router" \in fopts.have
                                           THEN fopts.router ELSE ZeroAddr]]
                  IN  IF s.m_state = "Requesting" THEN go_checking(s1) ELSE go_bound(s1)
        ELSE s

processReceivedDhcpMessage(s, src_addr, msg) ==
    LET opts == msg.opts
        ip_address == msg.yiaddr
        fix == checkAndFixupAck(ip_address, opts)
        fopts == fix.opts
    IN  IF s.m_state \in {"LinkDown", "Resetting", "Checking", "Bound"} THEN s
        ELSE IF ~msg.has_header THEN s
        ELSE IF ~sane(s, msg) THEN s
        ELSE IF ~msg.magic_ok THEN s
        ELSE IF ~msg.options_ok THEN s
        ELSE IF "dhcp_message_type" \notin opts.have
                \/ opts.dhcp_message_type \notin {"Offer", "Ack", "Nak"} THEN s
        ELSE IF "dhcp_server_identifier" \notin opts.have THEN s
        ELSE IF opts.dhcp_message_type = "Nak"
        THEN IF s.m_state \notin {"Requesting", "Renewing", "Rebinding", "Rebooting"}
             THEN s
             ELSE IF s.m_state = "Requesting"
                     /\ opts.dhcp_server_identifier # s.m_info.dhcp_server_identifier
             THEN s
             ELSE go_resetting(s, s.m_state # "Requesting")
        ELSE IF opts.dhcp_message_type = "Offer" /\ s.m_state = "Selecting"
        THEN IF ~checkOffer(ip_address) THEN s
             ELSE LET s1 == [s EXCEPT
                               !.m_info.ip_address = ip_address,
                               !.m_info.dhcp_server_identifier =
                                   opts.dhcp_server_identifier]
                      s2 == [set_state(s1, "Requesting") EXCEPT
                               !.m_request_send_time = s.now]
                      s3 == [send_request(s2) EXCEPT !.m_request_count = 1]
                  IN  set_timer_for_rtx(reset_rtx_timeout(s3))
        ELSE IF opts.dhcp_message_type = "Ack"
                /\ s.m_state \in {"Requesting", "Renewing", "Rebinding", "Rebooting"}
        THEN IF ~fix.ok THEN s
             ELSE IF s.m_state = "Requesting"
                     /\ (ip_address # s.m_info.ip_address
                         \/ opts.dhcp_server_identifier # s.m_info.dhcp_server_identifier)
             THEN s
             ELSE IF s.m_state \in {"Renewing", "Rebinding"}
                     /\ ~(s.m_lease_time_passed >= s.m_request_send_time_passed)
             THEN AIPSTACK_ASSERT(s, FALSE)
             ELSE IF s.m_state \in {"Renewing", "Rebinding"}
                     /\ s.m_lease_time_passed - s.m_request_send_time_passed
                            > MaxTimerSeconds
             THEN s
             ELSE LET s1 == [s EXCEPT !.m_info =
                               [ip_address |-> ip_address,
                                dhcp_server_identifier |-> fopts.dhcp_server_identifier,
                                dhcp_server_addr |-> src_addr,
                                lease_time_s |-> fopts.ip_address_lease_time,
                                renewal_time_s |-> fopts.renewal_time,
                                rebinding_time_s |-> fopts.rebinding_time,
                                subnet_mask |-> fopts.subnet_mask,
                                have_router |-> "router" \in fopts.have,
                                router |-> IF "router" \in fopts.have
                                           THEN fopts.router ELSE ZeroAddr]]
                  IN  IF s.m_state = "Requesting" THEN go_checking(s1) ELSE go_bound(s1)
        ELSE s

udpIp4PacketReceived(s, msg) ==
    IF msg.src_port # 67 THEN s
    ELSE IF ~msg.src_unicast THEN s
    ELSE processReceivedDhcpMessage(s, msg.src_addr, msg)

\* ------------------------------------------------------------------------
\* Link state and ARP observations.
\* ------------------------------------------------------------------------
\* Variant of ifaceStateChanged that leaves the timer armed when the link goes
\* down.
ifaceStateChanged_keeps_timer(s, link_up) ==
    IF s.m_state = "LinkDown"
    THEN IF link_up THEN start_discovery_or_rebooting(s) ELSE s
    ELSE IF ~link_up
    THEN LET had_lease == hasLease(s)
             s1 == IF ~(had_lease \/ s.m_state = "Rebooting")
                   THEN [s EXCEPT !.m_info.ip_address = ZeroAddr]
                   ELSE s
             s2 == set_state(s1, "LinkDown")
             s3 == retry_reset(arp_reset(s2))
         IN  IF had_lease THEN handle_dhcp_down(s3, TRUE, TRUE) ELSE s3
    ELSE s

\* Variant of ifaceStateChanged that leaves a pending send-retry request
\* registered when the link goes down.
ifaceStateChanged_keeps_retry(s, link_up) ==
    IF s.m_state = "LinkDown"
    THEN IF link_up THEN start_discovery_or_rebooting(s) ELSE s
    ELSE IF ~link_up
    THEN LET had_lease == hasLease(s)
             s1 == IF ~(had_lease \/ s.m_state = "Rebooting")
                   THEN [s EXCEPT !.m_info.ip_address = ZeroAddr]
                   ELSE s
             s2 == set_state(s1, "LinkDown")
             s3 == timer_unset(arp_reset(s2))
         IN  IF had_lease THEN handle_dhcp_down(s3, TRUE, TRUE) ELSE s3
    ELSE s

\* Variant of ifaceStateChanged that reports LinkDown whenever the link goes
\* down, with or without a lease.
ifaceStateChanged_always_reports(s, link_up) ==
    IF s.m_state = "LinkDown"
    THEN IF link_up THEN start_discovery_or_rebooting(s) ELSE s
    ELSE IF ~link_up
    THEN LET had_lease == hasLease(s)
             s1 == IF ~(had_lease \/ s.m_state = "Rebooting")
                   THEN [s EXCEPT !.m_info.ip_address = ZeroAddr]
                   ELSE s
             s2 == set_state(s1, "LinkDown")
             s3 == timer_unset(retry_reset(arp_reset(s2)))
         IN  handle_dhcp_down(s3, TRUE, TRUE)
    ELSE s

\* Variant of ifaceStateChanged that keeps the remembered address in every
\* state when the link goes down.
ifaceStateChanged_keeps_address(s, link_up) ==
    IF s.m_state = "LinkDown"
    THEN IF link_up THEN start_discovery_or_rebooting(s) ELSE s
    ELSE IF ~link_up
    THEN LET had_lease == hasLease(s)
             s1 == s
             s2 == set_state(s1, "LinkDown")
             s3 == timer_unset(retry_reset(arp_reset(s2)))
         IN  IF had_lease THEN handle_dhcp_down(s3, TRUE, TRUE) ELSE s3
    ELSE s

ifaceStateChanged(s, link_up) ==
    IF s.m_state = "LinkDown"
    THEN IF link_up THEN start_discovery_or_rebooting(s) ELSE s
    ELSE IF ~link_up
    THEN LET had_lease == hasLease(s)
             s1 == IF ~(had_lease \/ s.m_state = "Rebooting")
                   THEN [s EXCEPT !.m_info.ip_address = ZeroAddr]
                   ELSE s
             s2 == set_state(s1, "LinkDown")
             s3 == timer_unset(retry_reset(arp_reset(s2)))
         IN  IF had_lease THEN handle_dhcp_down(s3, TRUE, TRUE) ELSE s3
    ELSE s

\* Variant of arpInfoReceived that leaves the ARP observer subscribed when it
\* declines the address.
arpInfoReceived_keeps_observer(s, ip_addr) ==
    LET s0 == AIPSTACK_ASSERT(s, s.m_state = "Checking")
    IN  IF ip_addr = s.m_info.ip_address
        THEN go_resetting(send_decline(s0), FALSE)
        ELSE s0

arpInfoReceived(s, ip_addr) ==
    LET s0 == AIPSTACK_ASSERT(s, s.m_state = "Checking")
    IN  IF ip_addr = s.m_info.ip_address
        THEN go_resetting(arp_reset(send_decline(s0)), FALSE)
        ELSE s0

\* ------------------------------------------------------------------------
\* Construction and destruction.
\* ------------------------------------------------------------------------
\* The members as the constructor's initializer list and first statements leave
\* them.  Members without an initializer hold no meaningful value yet (the code
\* writes each of them before it reads it); they are shown as zero.
Constructed(opts, handler, link_up) ==
    [m_state |-> "LinkDown",
     m_handler |-> handler,
     m_client_id |-> opts.client_id,
     m_vendor_class_id |-> opts.vendor_class_id,
     m_xid |-> 0,
     m_rtx_timeout |-> 0,
     m_request_count |-> 0,
     m_lease_time_passed |-> 0,
     m_request_send_time |-> 0,
     m_request_send_time_passed |-> 0,
     m_info |-> [ip_address |-> opts.request_ip_address,
                 dhcp_server_identifier |-> 0,
                 dhcp_server_addr |-> ZeroAddr,
                 lease_time_s |-> 0,
                 renewal_time_s |-> 0,
                 rebinding_time_s |-> 0,
                 subnet_mask |-> ZeroAddr,
                 have_router |-> FALSE,
                 router |-> ZeroAddr],
     timer_set |-> FALSE,
     timer_time |-> 0,
     arp_observing |-> FALSE,
     retry_pending |-> FALSE,
     iface_addr |-> NoAddr,
     iface_gw |-> NoGateway,
     assert_failed |-> FALSE,
     now |-> 0,
     effects |-> << >>]

\* IpDhcpClient::IpDhcpClient
IpDhcpClient(opts, handler, link_up) ==
    LET s == Constructed(opts, handler, link_up)
    IN  IF link_up THEN start_discovery_or_rebooting(s) ELSE s

\* IpDhcpClient::~IpDhcpClient, followed by the members' destructors.
\* Variant of the destructor that lets handle_dhcp_down call the handler.
Destructor_with_callback(s) ==
    LET s1 == handle_dhcp_down(s, TRUE, FALSE)
    IN  [s1 EXCEPT !.timer_set = FALSE, !.timer_time = 0,
                   !.arp_observing = FALSE, !.retry_pending = FALSE]

Destructor(s) ==
    LET s1 == handle_dhcp_down(s, FALSE, FALSE)
    IN  [s1 EXCEPT !.timer_set = FALSE, !.timer_time = 0,
                   !.arp_observing = FALSE, !.retry_pending = FALSE]

\* ------------------------------------------------------------------------
\* TcpListener (the listening side of the TCP API).
\*
\* The TCP world is a record t: the listeners (by id) with their members,
\* the protocol object's m_listeners_list, the listener each PCB is
\* associated with (pcb->lis), assert_failed, and ret, the value returned
\* by the latest call.  One TCP protocol object exists, so m_tcp is not
\* shown.  Every member function is an operator from t to t.
\* ------------------------------------------------------------------------
NumListeners ==
    2
NumPcbs ==
    1

Listeners == 1..NumListeners
Pcbs == 1..NumPcbs

\* nullptr for a TcpListener* and for a TcpPcb*.
NoListener == 0
NoPcb == 0

\* TcpListenParams as the application may pass them.
ListenParams ==
    {[addr |-> a, port |-> p, max_pcbs |-> n] :
        a \in {ZeroAddr, Ip4Addr(192, 0, 2, 10)}, p \in {80, 81}, n \in {0, 1}}

\* Constants::MaxWindow of the TCP protocol.
MaxWindow == 1073741823

\* The constructor.  m_addr, m_port, m_max_pcbs and m_num_pcbs are left
\* uninitialized; they are read only through m_listeners_list, that is after
\* startListening has written them, and are shown as zero until then.
TcpListener ==
    [m_initial_rcv_wnd |-> 0, m_accept_pcb |-> NoPcb, m_listening |-> FALSE,
     m_addr |-> ZeroAddr, m_port |-> 0, m_max_pcbs |-> 0, m_num_pcbs |-> 0]

isListening(t, l) == t.listeners[l].m_listening

hasAcceptPending(t, l) == t.listeners[l].m_accept_pcb # NoPcb

\* IpTcpProto::find_listener: the first listener of m_listeners_list that
\* listens on (addr, port), or nullptr.
find_listener(t, addr, port) ==
    LET hits == {i \in DOMAIN t.m_listeners_list :
                    /\ t.listeners[t.m_listeners_list[i]].m_addr = addr
                    /\ t.listeners[t.m_listeners_list[i]].m_port = port}
    IN  IF hits = {} THEN NoListener
        ELSE t.m_listeners_list[CHOOSE i \in hits : \A j \in hits : i <= j]

\* IpTcpProto::unlink_listener: the PCBs associated with the listener are
\* disassociated from it (those in SYN_RCVD are aborted).
unlink_listener(t, l) ==
    [t EXCEPT !.pcb_lis = [p \in Pcbs |-> IF @[p] = l THEN NoListener ELSE @[p]]]

\* m_listeners_list.remove
listeners_list_remove(t, l) ==
    [t EXCEPT !.m_listeners_list = SelectSeq(@, LAMBDA x : x # l)]

\* m_listeners_list.prepend
listeners_list_prepend(t, l) ==
    [t EXCEPT !.m_listeners_list = <<l>> \o @]

reset(t, l) ==
    LET t1 == IF t.listeners[l].m_listening
              THEN unlink_listener(listeners_list_remove(t, l), l)
              ELSE t
    IN  [t1 EXCEPT !.listeners[l].m_initial_rcv_wnd = 0,
                   !.listeners[l].m_accept_pcb = NoPcb,
                   !.listeners[l].m_listening = FALSE]

\* Variant of startListening that does not look for another listener on the
\* same address and port.
startListening_unchecked(t, l, params) ==
    LET t1 == AIPSTACK_ASSERT(AIPSTACK_ASSERT(t, ~t.listeners[l].m_listening),
                              params.max_pcbs > 0)
    IN  IF t1.assert_failed THEN t1
        ELSE listeners_list_prepend(
                 [t1 EXCEPT !.listeners[l].m_addr = params.addr,
                            !.listeners[l].m_port = params.port,
                            !.listeners[l].m_max_pcbs = params.max_pcbs,
                            !.listeners[l].m_num_pcbs = 0,
                            !.listeners[l].m_listening = TRUE,
                            !.ret = TRUE], l)

startListening(t, l, params) ==
    LET t1 == AIPSTACK_ASSERT(AIPSTACK_ASSERT(t, ~t.listeners[l].m_listening),
                              params.max_pcbs > 0)
    IN  IF t1.assert_failed THEN t1
        ELSE IF find_listener(t1, params.addr, params.port) # NoListener
        THEN [t1 EXCEPT !.ret = FALSE]
        ELSE listeners_list_prepend(
                 [t1 EXCEPT !.listeners[l].m_addr = params.addr,
                            !.listeners[l].m_port = params.port,
                            !.listeners[l].m_max_pcbs = params.max_pcbs,
                            !.listeners[l].m_num_pcbs = 0,
                            !.listeners[l].m_listening = TRUE,
                            !.ret = TRUE], l)

setInitialReceiveWindow(t, l, rcv_wnd) ==
    [t EXCEPT !.listeners[l].m_initial_rcv_wnd = MinValue(rcv_wnd, MaxWindow)]

\* The protocol input path (IpTcpProto_input), as far as it writes members
\* of TcpListener.  A SYN for a listener with fewer than m_max_pcbs
\* connections takes a free PCB, associates it and counts it.
syn_received(t, l, p) ==
    [t EXCEPT !.pcb_lis[p] = l, !.listeners[l].m_num_pcbs = @ + 1]

\* The handshake of PCB p completes: the PCB becomes the listener's accept
\* PCB for the duration of the EstablishedHandler callback.
established_handler_called(t, p) ==
    [t EXCEPT !.listeners[t.pcb_lis[p]].m_accept_pcb = p]

\* The EstablishedHandler callback returns (or acceptConnection took the
\* PCB): the listener has no accept PCB, and the PCB is no longer one of
\* the listener's.
established_handler_returned(t, l) ==
    LET p == t.listeners[l].m_accept_pcb
    IN  [t EXCEPT !.listeners[l].m_accept_pcb = NoPcb,
                  !.listeners[l].m_num_pcbs = @ - 1,
                  !.pcb_lis[p] = NoListener]

\* ------------------------------------------------------------------------
\* State.
\* ------------------------------------------------------------------------
VARIABLES
    m_state, m_handler, m_client_id, m_vendor_class_id, m_xid, m_rtx_timeout,
    m_request_count, m_lease_time_passed, m_request_send_time,
    m_request_send_time_passed, m_info,
    timer_set,      \* m_timer is set
    timer_time,     \* m_timer.getSetTime()
    arp_observing,  \* m_arp_observer is subscribed
    retry_pending,  \* the IpSendRetryRequest base is registered for a retry
    iface_addr,     \* the interface's IPv4 address setting
    iface_gw,       \* the interface's IPv4 gateway setting
    assert_failed,  \* some AIPSTACK_ASSERT has failed
    effects,        \* what the latest handler did, in program order
    link_up,        \* iface->getDriverState().link_up
    alive,          \* the client object exists
    idle,           \* ticks passed since the timer was last armed or unset
    listeners,          \* the members of each TcpListener
    m_listeners_list,   \* the TCP protocol's list of listening listeners
    pcb_lis,            \* the listener each PCB is associated with (pcb->lis)
    tcp_assert_failed,  \* some AIPSTACK_ASSERT of TcpListener has failed
    tcp_call            \* the latest call of the TcpListener API, with its result

\* The variables of the TCP listeners.
tcp_vars == <<listeners, m_listeners_list, pcb_lis, tcp_assert_failed, tcp_call>>

\* The variables of the DHCP client.
client_vars ==
    <<m_state, m_handler, m_client_id, m_vendor_class_id, m_xid, m_rtx_timeout,
      m_request_count, m_lease_time_passed, m_request_send_time,
      m_request_send_time_passed, m_info, timer_set, timer_time, arp_observing,
      retry_pending, iface_addr, iface_gw, assert_failed, effects, link_up,
      alive, idle>>

vars == <<client_vars, tcp_vars>>

\* The TCP world as a record.
Tcp ==
    [listeners |-> listeners, m_listeners_list |-> m_listeners_list,
     pcb_lis |-> pcb_lis, assert_failed |-> tcp_assert_failed, ret |-> FALSE]

\* No call of the TcpListener API has been made.
NoCall == [op |-> "none", lis |-> NoListener, ret |-> FALSE]

\* The listeners just after construction, none listening, no PCB in use.
ListenersConstructed ==
    /\ listeners = [l \in Listeners |-> TcpListener]
    /\ m_listeners_list = << >>
    /\ pcb_lis = [p \in Pcbs |-> NoListener]
    /\ tcp_assert_failed = FALSE
    /\ tcp_call = NoCall

\* Members of a listener that the code is bound to write before it reads
\* them again hold no meaningful value: m_addr, m_port, m_max_pcbs and
\* m_num_pcbs are read only while the listener is in m_listeners_list, and are
\* shown as zero while it is not listening.
MeaningfulListener(lis) ==
    IF lis.m_listening THEN lis
    ELSE [lis EXCEPT !.m_addr = ZeroAddr, !.m_port = 0, !.m_max_pcbs = 0,
                     !.m_num_pcbs = 0]

\* The variables after a call that leaves the TCP world as t.
TcpCommit(t, call) ==
    /\ listeners' = [l \in Listeners |-> MeaningfulListener(t.listeners[l])]
    /\ m_listeners_list' = t.m_listeners_list
    /\ pcb_lis' = t.pcb_lis
    /\ tcp_assert_failed' = t.assert_failed
    /\ tcp_call' = [call EXCEPT !.ret = t.ret]

\* The client as a record.
Cur ==
    [m_state |-> m_state, m_handler |-> m_handler, m_client_id |-> m_client_id,
     m_vendor_class_id |-> m_vendor_class_id, m_xid |-> m_xid,
     m_rtx_timeout |-> m_rtx_timeout, m_request_count |-> m_request_count,
     m_lease_time_passed |-> m_lease_time_passed,
     m_request_send_time |-> m_request_send_time,
     m_request_send_time_passed |-> m_request_send_time_passed,
     m_info |-> m_info, timer_set |-> timer_set, timer_time |-> timer_time,
     arp_observing |-> arp_observing, retry_pending |-> retry_pending,
     iface_addr |-> iface_addr, iface_gw |-> iface_gw,
     assert_failed |-> assert_failed, now |-> 0, effects |-> effects]

\* The client at the start of a handler entered at clock reading t, with an
\* empty effects log.
Enter(t) == [Cur EXCEPT !.now = t, !.effects = << >>]

\* The clock's origin is arbitrary: the code uses clock readings only in
\* differences and, truncated, as XIDs compared for equality.  The model keeps
\* the origin at the current instant: when dt ticks have passed, every stored
\* clock reading (and every reading in the effects log) is moved back by dt.
\* Readings of the past are negative.
\*
\* An XID is only ever compared for equality, with the XID of a datagram or
\* (implicitly, in new_xid) with the clock reading of the current instant.  All
\* XIDs taken from past clock readings behave alike, and are shown as PastXid.
PastXid == 0 - 1

XidRebase(x, dt) == MaxValue(x - dt, PastXid)

RebaseMembers(s, dt) ==
    [s EXCEPT
       !.now = @ - dt,
       !.timer_time = IF s.timer_set THEN @ - dt ELSE @,
       !.m_request_send_time = @ - dt,
       !.m_xid = XidRebase(@, dt)]

\* Members that the code is bound to write before it reads them again hold no
\* meaningful value (like the members the constructor leaves uninitialized).
\* They are shown as zero, so that states differing only in them coincide:
\*   m_xid                       is not read in LinkDown, Resetting, Bound;
\*   m_rtx_timeout               is read in Selecting, Requesting, Rebooting;
\*   m_request_count             is read in those and in Checking;
\*   m_lease_time_passed         is read in Bound, Renewing, Rebinding;
\*   m_request_send_time         is read in Rebooting, Requesting, Checking,
\*                               Renewing, Rebinding (by go_bound);
\*   m_request_send_time_passed  is read in Renewing, Rebinding;
\*   m_info.dhcp_server_identifier is read in Requesting, Checking and with a lease;
\*   the other members of m_info but ip_address are read in Checking and with
\*   a lease.
Meaningful(s) ==
    LET st == s.m_state
        leased == st \in {"Checking", "Bound", "Renewing", "Rebinding"}
        keep(cond, v, dflt) == IF cond THEN v ELSE dflt
    IN  [s EXCEPT
           !.m_xid = keep(st \notin {"LinkDown", "Resetting", "Bound"}, @, 0),
           !.m_rtx_timeout = keep(st \in {"Selecting", "Requesting", "Rebooting"}, @, 0),
           !.m_request_count =
               keep(st \in {"Selecting", "Requesting", "Rebooting", "Checking"}, @, 0),
           !.m_lease_time_passed = keep(st \in {"Bound", "Renewing", "Rebinding"}, @, 0),
           !.m_request_send_time =
               keep(st \in {"Rebooting", "Requesting", "Checking", "Renewing",
                            "Rebinding"}, @, 0),
           !.m_request_send_time_passed = keep(st \in {"Renewing", "Rebinding"}, @, 0),
           !.m_info.dhcp_server_identifier = keep(leased \/ st = "Requesting", @, 0),
           !.m_info.dhcp_server_addr = keep(leased, @, ZeroAddr),
           !.m_info.lease_time_s = keep(leased, @, 0),
           !.m_info.renewal_time_s = keep(leased, @, 0),
           !.m_info.rebinding_time_s = keep(leased, @, 0),
           !.m_info.subnet_mask = keep(leased, @, ZeroAddr),
           !.m_info.have_router = keep(leased, @, FALSE),
           !.m_info.router = keep(leased, @, ZeroAddr)]

Rebase(s, dt) ==
    [RebaseMembers(s, dt) EXCEPT
       !.effects = [i \in DOMAIN @ |->
                      IF @[i].op = "timer_set" THEN [@[i] EXCEPT !.at = @ - dt]
                      ELSE IF @[i].op = "send" THEN [@[i] EXCEPT !.xid = XidRebase(@, dt)]
                      ELSE IF @[i].op = "callback"
                      THEN [@[i] EXCEPT !.then = Meaningful(RebaseMembers(@, dt))]
                      ELSE @[i]]]

\* The variables after a handler that leaves the client as s.
Commit(s0) ==
    \E s \in {Meaningful(Rebase(s0, s0.now))} :
    /\ m_state' = s.m_state
    /\ m_handler' = s.m_handler
    /\ m_client_id' = s.m_client_id
    /\ m_vendor_class_id' = s.m_vendor_class_id
    /\ m_xid' = s.m_xid
    /\ m_rtx_timeout' = s.m_rtx_timeout
    /\ m_request_count' = s.m_request_count
    /\ m_lease_time_passed' = s.m_lease_time_passed
    /\ m_request_send_time' = s.m_request_send_time
    /\ m_request_send_time_passed' = s.m_request_send_time_passed
    /\ m_info' = s.m_info
    /\ timer_set' = s.timer_set
    /\ timer_time' = s.timer_time
    /\ arp_observing' = s.arp_observing
    /\ retry_pending' = s.retry_pending
    /\ iface_addr' = s.iface_addr
    /\ iface_gw' = s.iface_gw
    /\ assert_failed' = s.assert_failed
    /\ effects' = s.effects

\* ------------------------------------------------------------------------
\* Inputs.
\* ------------------------------------------------------------------------
AddrA == Ip4Addr(192, 0, 2, 10)
AddrB == Ip4Addr(192, 0, 2, 11)
ServerAddrA == Ip4Addr(192, 0, 2, 1)
ServerAddrB == Ip4Addr(192, 0, 2, 2)
ServerIdA ==
    1
ServerIdB ==
    2

\* Whether a handler is given at construction.
InitHandlers == {TRUE, FALSE}

\* Initialization options the client may be constructed with.
InitOptions ==
    {[client_id |-> FALSE, vendor_class_id |-> FALSE, request_ip_address |-> a] :
        a \in {ZeroAddr, AddrA}}

\* The lease, renewal and rebinding time options of an ACK.
AckTimes ==
    {[have |-> {"ip_address_lease_time"}, lease |-> 8, renewal |-> 0, rebinding |-> 0],
     [have |-> {"ip_address_lease_time"}, lease |-> 0, renewal |-> 0, rebinding |-> 0],
     [have |-> {"ip_address_lease_time", "renewal_time", "rebinding_time"},
      lease |-> 6, renewal |-> 9, rebinding |-> 2],
     [have |-> {"ip_address_lease_time", "rebinding_time"},
      lease |-> 6, renewal |-> 0, rebinding |-> 9],
     [have |-> {"ip_address_lease_time", "renewal_time", "rebinding_time"},
      lease |-> 90, renewal |-> 10, rebinding |-> 80],
     [have |-> {"ip_address_lease_time", "renewal_time", "rebinding_time"},
      lease |-> 8, renewal |-> 1, rebinding |-> 2]}

\* The options (DhcpRecvOptions) of a well-formed reply of server server_id.
ReplyOptions(type, server_id, times) ==
    [have |-> {"dhcp_message_type", "dhcp_server_identifier", "subnet_mask",
               "router"} \cup times.have,
     dhcp_message_type |-> type,
     dhcp_server_identifier |-> server_id,
     ip_address_lease_time |-> times.lease,
     renewal_time |-> times.renewal,
     rebinding_time |-> times.rebinding,
     subnet_mask |-> Ip4Addr(255, 255, 255, 0),
     router |-> ServerAddrA]

\* A well-formed reply of server (server_id, src_addr) to the client's current
\* transaction.
Reply(type, server_id, src_addr, yiaddr, times) ==
    [src_port |-> 67, src_unicast |-> TRUE, src_addr |-> src_addr,
     has_header |-> TRUE, op |-> "BootReply", htype |-> "Ethernet", hlen |-> 6,
     xid |-> m_xid, chaddr |-> MacAddr, magic_ok |-> TRUE, options_ok |-> TRUE,
     yiaddr |-> yiaddr,
     opts |-> ReplyOptions(type, server_id, times)]

\* The times of a plain ACK.
PlainTimes == CHOOSE x \in AckTimes : x.lease = 8 /\ "renewal_time" \notin x.have

\* Replies of the two servers: server A acknowledges with each of AckTimes.
GoodReplies ==
    {Reply("Ack", ServerIdA, ServerAddrA, AddrA, times) : times \in AckTimes}
    \cup {Reply(type, ServerIdA, ServerAddrA, AddrA, PlainTimes) : type \in {"Offer", "Nak"}}
    \cup {Reply(type, ServerIdB, ServerAddrB, AddrB, PlainTimes) :
            type \in {"Offer", "Ack", "Nak"}}

\* One well-formed reply of each type.
BaseReply(type) == Reply(type, ServerIdA, ServerAddrA, AddrA, PlainTimes)

\* A reply of another transaction or to another client.
Foreign(m) ==
    {[m EXCEPT !.xid = m_xid + 1],
     [m EXCEPT !.chaddr = "02:aa:aa:aa:aa:aa"]}

\* The ways a datagram can fail the checks made before its type is looked at.
Malformed(m) ==
    {[m EXCEPT !.src_port = 68],
     [m EXCEPT !.src_unicast = FALSE],
     [m EXCEPT !.has_header = FALSE],
     [m EXCEPT !.op = "BootRequest"],
     [m EXCEPT !.htype = "Other"],
     [m EXCEPT !.hlen = 16],
     [m EXCEPT !.magic_ok = FALSE],
     [m EXCEPT !.options_ok = FALSE],
     [m EXCEPT !.opts.have = @ \ {"dhcp_message_type"}],
     [m EXCEPT !.opts.dhcp_message_type = "Discover"],
     [m EXCEPT !.opts.have = @ \ {"dhcp_server_identifier"}]}

\* Offered or acknowledged addresses that checkOffer refuses.
BadYiaddr(m) ==
    {[m EXCEPT !.yiaddr = ZeroAddr],
     [m EXCEPT !.yiaddr = AllOnesAddr],
     [m EXCEPT !.yiaddr = Ip4Addr(127, 0, 0, 1)],
     [m EXCEPT !.yiaddr = Ip4Addr(224, 0, 0, 1)]}

\* ACKs that differ from the well-formed one in what checkAndFixupAck and the
\* comparison with the offer look at.
OddAcks(m) ==
    {[m EXCEPT !.opts.have = @ \ {"ip_address_lease_time"}],
     [m EXCEPT !.opts.have = @ \ {"subnet_mask"}],
     [m EXCEPT !.opts.subnet_mask = Ip4Addr(255, 0, 255, 0)],
     [m EXCEPT !.opts.subnet_mask = Ip4Addr(255, 255, 255, 254), !.yiaddr = AddrB],
     [m EXCEPT !.opts.router = Ip4Addr(10, 0, 0, 1)],
     [m EXCEPT !.opts.have = @ \ {"router"}],
     [m EXCEPT !.yiaddr = AddrB],
     [m EXCEPT !.opts.dhcp_server_identifier = ServerIdB]}

\* The datagrams that may arrive on the client's UDP port.
Messages ==
    GoodReplies
    \cup Foreign(BaseReply("Offer")) \cup Foreign(BaseReply("Ack"))
    \cup Foreign(BaseReply("Nak"))
    \cup Malformed(BaseReply("Ack"))
    \cup BadYiaddr(BaseReply("Offer")) \cup BadYiaddr(BaseReply("Ack"))
    \cup OddAcks(BaseReply("Ack"))

\* The IP addresses ARP observations may report.
ArpAddrs == {AddrA, AddrB, ServerAddrA}

\* ------------------------------------------------------------------------
\* Specification.
\* ------------------------------------------------------------------------
\* The variables just after construction has left the client as s.
Holds(s0) ==
    \E s \in {Meaningful(Rebase(s0, s0.now))} :
    /\ m_state = s.m_state
    /\ m_handler = s.m_handler
    /\ m_client_id = s.m_client_id
    /\ m_vendor_class_id = s.m_vendor_class_id
    /\ m_xid = s.m_xid
    /\ m_rtx_timeout = s.m_rtx_timeout
    /\ m_request_count = s.m_request_count
    /\ m_lease_time_passed = s.m_lease_time_passed
    /\ m_request_send_time = s.m_request_send_time
    /\ m_request_send_time_passed = s.m_request_send_time_passed
    /\ m_info = s.m_info
    /\ timer_set = s.timer_set
    /\ timer_time = s.timer_time
    /\ arp_observing = s.arp_observing
    /\ retry_pending = s.retry_pending
    /\ iface_addr = s.iface_addr
    /\ iface_gw = s.iface_gw
    /\ assert_failed = s.assert_failed
    /\ effects = s.effects

\* A handler's effects include a sent datagram.
Sent(s) == \E i \in DOMAIN s.effects : s.effects[i].op = "send"

\* What a handler that ends as s can leave behind: a datagram it sent either
\* went out, or waits for ARP resolution with the client registered for a retry
\* (udp().sendUdpIp4Packet(..., this, ...)).
SendOutcomes(s) ==
    IF Sent(s) THEN {s, [s EXCEPT !.retry_pending = TRUE]} ELSE {s}

\* Construction: with or without a handler, with the link up or down.
Init ==
    \E opts \in InitOptions, handler \in InitHandlers, up \in BOOLEAN :
        \E s \in SendOutcomes(IpDhcpClient(opts, handler, up)) :
            /\ Holds(s)
            /\ link_up = up
            /\ alive = TRUE
            /\ idle = 0
            /\ ListenersConstructed

\* A handler may run: the client exists, no assertion has stopped the program.
Running == alive /\ ~assert_failed

\* idle after a handler that ends as s: it restarts when the timer was armed or
\* unset.
IdleAfter(s) ==
    IF \E i \in DOMAIN s.effects : s.effects[i].op \in {"timer_set", "timer_unset"}
    THEN 0 ELSE idle

\* The client after timerHandler has run, d ticks after the timer's expiry
\* time (the timer is no longer set when its handler is called; the expiry is
\* the first entry of the handler's effects).
TimerFired(d) ==
    timerHandler(Log([Enter(MaxValue(0, timer_time) + d) EXCEPT !.timer_set = FALSE],
                     [op |-> "timer_expired"]))

\* The timer expires and timerHandler runs, d ticks after the expiry time.
TimerFire ==
    /\ Running
    /\ timer_set
    /\ \E d \in 0..MaxLatency :
         \E r \in {TimerFired(d)} :
             /\ \E s \in SendOutcomes(r) : Commit(s)
             /\ idle' = IdleAfter(r)
    /\ UNCHANGED <<link_up, alive>>
    /\ UNCHANGED tcp_vars

\* A datagram arrives on the DHCP client port.
Receive ==
    /\ Running
    /\ \E msg \in Messages :
         \E r \in {udpIp4PacketReceived(Enter(0), msg)} :
             /\ \E s \in SendOutcomes(r) : Commit(s)
             /\ idle' = IdleAfter(r)
    /\ UNCHANGED <<link_up, alive>>
    /\ UNCHANGED tcp_vars

\* The ARP observer reports an ARP message (only while subscribed).
ArpInfo ==
    /\ Running
    /\ arp_observing
    /\ \E ip_addr \in ArpAddrs :
         \E r \in {arpInfoReceived(Enter(0), ip_addr)} :
             /\ \E s \in SendOutcomes(r) : Commit(s)
             /\ idle' = IdleAfter(r)
    /\ UNCHANGED <<link_up, alive>>
    /\ UNCHANGED tcp_vars

\* The interface reports a driver state change; the link is then up or down.
LinkChange ==
    /\ Running
    /\ \E up \in BOOLEAN :
         \E r \in {ifaceStateChanged(Enter(0), up)} :
             /\ link_up' = up
             /\ \E s \in SendOutcomes(r) : Commit(s)
             /\ idle' = IdleAfter(r)
    /\ UNCHANGED alive
    /\ UNCHANGED tcp_vars

\* The transport dispatches the pending send-retry request (which removes the
\* registration before calling back).
Retry ==
    /\ Running
    /\ retry_pending
    /\ \E r \in {retrySending([Enter(0) EXCEPT !.retry_pending = FALSE])} :
           /\ \E s \in SendOutcomes(r) : Commit(s)
           /\ idle' = IdleAfter(r)
    /\ UNCHANGED <<link_up, alive>>
    /\ UNCHANGED tcp_vars

\* The client is destroyed.  Its members are gone: they are shown as the zero
\* of Constructed; the interface settings and the effects of the destructor
\* remain.
Destroy ==
    /\ Running
    /\ \E r \in {Destructor(Enter(0))} :
           Commit([Constructed([client_id |-> FALSE, vendor_class_id |-> FALSE,
                                request_ip_address |-> ZeroAddr], FALSE, FALSE)
                     EXCEPT !.iface_addr = r.iface_addr, !.iface_gw = r.iface_gw,
                            !.effects = r.effects])
    /\ alive' = FALSE
    /\ idle' = 0
    /\ UNCHANGED link_up
    /\ UNCHANGED tcp_vars

\* One tick passes with no handler running (the timer is not yet due), so
\* nothing is done.
TimePasses ==
    /\ Running
    /\ idle < MaxIdle
    /\ timer_set => timer_time > 0
    /\ Commit([Cur EXCEPT !.now = 1, !.effects = << >>])
    /\ idle' = idle + 1
    /\ UNCHANGED <<link_up, alive>>
    /\ UNCHANGED tcp_vars

Next ==
    \/ TimerFire
    \/ Receive
    \/ ArpInfo
    \/ LinkChange
    \/ Retry
    \/ Destroy
    \/ TimePasses

Spec == Init /\ [][Next]_vars

\* ------------------------------------------------------------------------
\* The TCP listeners: the application's calls of the TcpListener API and the
\* protocol's input path.
\* ------------------------------------------------------------------------
\* Receive windows the application may ask for.
ReceiveWindows == {MaxWindow + 1}

\* An EstablishedHandler callback is running.
InEstablishedHandler == \E l \in Listeners : hasAcceptPending(Tcp, l)

\* The application calls startListening.
StartListening ==
    /\ ~tcp_assert_failed
    /\ \E l \in Listeners, params \in ListenParams :
         TcpCommit(startListening(Tcp, l, params),
                   [NoCall EXCEPT !.op = "startListening", !.lis = l])
    /\ UNCHANGED client_vars

\* The application calls reset.
Reset ==
    /\ ~tcp_assert_failed
    /\ \E l \in Listeners :
         TcpCommit(reset(Tcp, l), [NoCall EXCEPT !.op = "reset", !.lis = l])
    /\ UNCHANGED client_vars

\* The application calls setInitialReceiveWindow.
SetInitialReceiveWindow ==
    /\ ~tcp_assert_failed
    /\ \E l \in Listeners, rcv_wnd \in ReceiveWindows :
         TcpCommit(setInitialReceiveWindow(Tcp, l, rcv_wnd),
                   [NoCall EXCEPT !.op = "setInitialReceiveWindow", !.lis = l])
    /\ UNCHANGED client_vars

\* A SYN arrives for a listener that can take one more connection.
SynReceived ==
    /\ ~tcp_assert_failed
    /\ ~InEstablishedHandler
    /\ \E l \in Listeners, p \in Pcbs :
         /\ isListening(Tcp, l)
         /\ listeners[l].m_num_pcbs < listeners[l].m_max_pcbs
         /\ pcb_lis[p] = NoListener
         /\ TcpCommit(syn_received(Tcp, l, p), tcp_call)
    /\ UNCHANGED client_vars

\* A handshake completes and the listener's EstablishedHandler is called.
EstablishedHandlerCalled ==
    /\ ~tcp_assert_failed
    /\ ~InEstablishedHandler
    /\ \E p \in Pcbs :
         /\ pcb_lis[p] # NoListener
         /\ TcpCommit(established_handler_called(Tcp, p), tcp_call)
    /\ UNCHANGED client_vars

\* The EstablishedHandler returns.
EstablishedHandlerReturned ==
    /\ ~tcp_assert_failed
    /\ \E l \in Listeners :
         /\ hasAcceptPending(Tcp, l)
         /\ TcpCommit(established_handler_returned(Tcp, l), tcp_call)
    /\ UNCHANGED client_vars

ListenerNext ==
    \/ StartListening
    \/ Reset
    \/ SetInitialReceiveWindow
    \/ SynReceived
    \/ EstablishedHandlerCalled
    \/ EstablishedHandlerReturned

\* The listeners do not depend on the DHCP client, which takes no step here:
\* it is the client constructed without a handler while the link is down.
ListenerInit ==
    /\ Init
    /\ ~link_up
    /\ ~m_handler
    /\ m_info.ip_address = ZeroAddr

ListenerSpec == ListenerInit /\ [][ListenerNext]_vars

\* ------------------------------------------------------------------------
\* Properties.
\* ------------------------------------------------------------------------
\* The events the latest handler reported to the user, in order.
Reported ==
    LET cbs == SelectSeq(effects, LAMBDA e : e.op = "callback")
    IN  [i \in 1..Len(cbs) |-> cbs[i].event]

\* The latest handler did something of kind op.
Did(op) == \E i \in DOMAIN effects : effects[i].op = op

\* The latest handler set m_state to st.
Entered(st) == \E i \in DOMAIN effects : effects[i].op = "state" /\ effects[i].to = st

\* A lease is active.
Leased == hasLease(Cur)

\* C1 as the spec states it: at every handler boundary the interface's IPv4
\* address and its gateway are assigned if and only if the client is in BOUND,
\* RENEWING or REBINDING.
AddressAndGatewayIffLease ==
    alive => /\ iface_addr.present <=> Leased
             /\ iface_gw.present <=> Leased

\* C1, amended: at every handler boundary the interface's IPv4 address is
\* assigned if and only if the client is in BOUND, RENEWING or REBINDING (when
\* hasLease() is true), and it is the leased address; the gateway is assigned
\* if and only if, in addition, the lease has a router (the ACK carried a
\* router option within the subnet).
AddressIffLease ==
    alive => /\ iface_addr.present <=> Leased
             /\ iface_gw.present <=> (Leased /\ m_info.have_router)
             /\ Leased => iface_addr.addr = m_info.ip_address

\* A lease with a router is active, after a renewal.
LeaseWithGatewayHeld ==
    /\ alive /\ m_state = "Renewing"
    /\ iface_addr.present /\ iface_gw.present

\* C2: whenever a handler installs a lease (go_bound sets the state to BOUND),
\* it came from CHECKING, REBOOTING, RENEWING or REBINDING and the handler given
\* by the user is called exactly once: with LeaseObtained when no lease was
\* held before, with LeaseRenewed when one was.
InstallReportsObtainedOrRenewed ==
    [][(alive' /\ Entered("Bound")') =>
          /\ m_state \in {"Checking", "Rebooting", "Renewing", "Rebinding"}
          /\ Reported' = IF ~m_handler THEN << >>
                         ELSE IF Leased THEN <<"LeaseRenewed">>
                         ELSE <<"LeaseObtained">>]_vars

\* A lease was installed over an active one and reported as renewed.
LeaseRenewedReported ==
    /\ m_state = "Bound" /\ Entered("Bound") /\ Reported = <<"LeaseRenewed">>

\* C3: when a handler withdraws an active lease, the handler given by the user
\* is called exactly once: with LinkDown when the link went down, with
\* LeaseLost otherwise (lease timeout, NAK); a handler that starts in a state
\* without a lease reports neither LeaseLost nor LinkDown.
WithdrawalReportsOneEvent ==
    [][alive' =>
          /\ (Leased /\ ~Leased' /\ m_handler) =>
                 Reported' = IF link_up /\ ~link_up' THEN <<"LinkDown">>
                             ELSE <<"LeaseLost">>
          /\ ~Leased =>
                 \A i \in DOMAIN Reported' : Reported'[i] \notin {"LeaseLost", "LinkDown"}
      ]_vars

\* The link went down under an active lease and LinkDown was reported.
LinkDownReported ==
    /\ m_state = "LinkDown" /\ Did("set_addr") /\ Reported = <<"LinkDown">>

\* C4: in every handler that calls the handler given by the user, the call is
\* the last thing done: it is the last entry of the handler's effects, and the
\* client is, when the handler ends, as the callback found it.
CallbackIsLastEffect ==
    \A i \in DOMAIN effects :
        effects[i].op = "callback" =>
            /\ i = Len(effects)
            /\ effects[i].then = [Cur EXCEPT !.effects = << >>, !.retry_pending = FALSE]

\* A handler changed the state, armed the timer, sent a datagram, changed the
\* interface configuration and then called the user.
CallbackAfterAllEffects ==
    /\ Did("state") /\ Did("timer_set") /\ Did("send") /\ Did("set_addr")
    /\ Len(Reported) = 1

\* C5: destroying the client, in whatever state it is, leaves the interface
\* with no IPv4 address and no gateway and does not call the user's handler.
DestructionWithdrawsSilently ==
    /\ Running =>
          \E r \in {Destructor(Enter(0))} :
              /\ r.iface_addr = NoAddr
              /\ r.iface_gw = NoGateway
              /\ \A i \in DOMAIN r.effects : r.effects[i].op # "callback"
    /\ ~alive =>
          /\ iface_addr = NoAddr
          /\ iface_gw = NoGateway
          /\ ~Did("callback")

\* A client with a handler and an active lease with a gateway, whose
\* destruction removes both settings.
DestroyedWhileLeased ==
    /\ Running /\ m_handler /\ Leased
    /\ iface_addr.present /\ iface_gw.present
    /\ Destructor(Enter(0)).iface_addr = NoAddr
    /\ Destructor(Enter(0)).iface_gw = NoGateway

\* The replies of GoodReplies, each made a reply of another transaction and a
\* reply to another client.
ForeignReplies == UNION {Foreign(m) : m \in GoodReplies}

\* C6: in every state, a received OFFER, ACK or NAK whose XID is not the
\* client's current XID, or whose chaddr is not the interface's MAC address,
\* leaves every member, the timer, the ARP subscription, the retry registration
\* and the interface configuration as they were, and has no effect (no send, no
\* callback).
ForeignRepliesIgnored ==
    alive => \A m \in ForeignReplies : udpIp4PacketReceived(Enter(0), m) = Enter(0)

\* A client waiting for an ACK: the server's ACK is acted upon, the same ACK
\* with another XID or another chaddr is not.
ForeignAckWhileRequesting ==
    /\ alive /\ m_state = "Requesting"
    /\ \E m \in GoodReplies :
          /\ m.opts.dhcp_message_type = "Ack"
          /\ udpIp4PacketReceived(Enter(0), m).m_state = "Checking"
          /\ \A f \in Foreign(m) : udpIp4PacketReceived(Enter(0), f) = Enter(0)

\* C7: whichever of AckTimes an ACK carries (renewal and rebinding time
\* omitted, above the lease time, below the renewal time, lease time 0),
\* checkAndFixupAck accepts it and leaves renewal_time <= rebinding_time <=
\* ip_address_lease_time in the options; and the lease record has
\* renewal_time_s <= rebinding_time_s <= lease_time_s in every state that has
\* or is acquiring a lease from an ACK.
LeaseTimesOrdered ==
    /\ \A times \in AckTimes :
          \E fix \in {checkAndFixupAck(AddrA, ReplyOptions("Ack", ServerIdA, times))} :
              fix.ok /\ /\ fix.opts.renewal_time <= fix.opts.rebinding_time
                        /\ fix.opts.rebinding_time <= fix.opts.ip_address_lease_time
    /\ m_state \in {"Checking", "Bound", "Renewing", "Rebinding"} =>
          /\ m_info.renewal_time_s <= m_info.rebinding_time_s
          /\ m_info.rebinding_time_s <= m_info.lease_time_s

\* A lease from an ACK whose renewal time exceeded the lease time and whose
\* rebinding time was below the renewal time.
FixedUpLeaseBound ==
    /\ m_state = "Bound"
    /\ m_info.lease_time_s = 6
    /\ m_info.renewal_time_s = 6
    /\ m_info.rebinding_time_s = 6

\* The number of ARP queries the effects e hold.
ArpQueries(e) == Len(SelectSeq(e, LAMBDA x : x.op = "arp_query"))

\* The times, from the end of the handler, for which the effects e arm the timer.
TimersArmed(e) ==
    LET ts == SelectSeq(e, LAMBDA x : x.op = "timer_set")
    IN  [i \in 1..Len(ts) |-> ts[i].at]

\* The effects e hold a DECLINE.
Declined(e) == \E i \in DOMAIN e : e[i].op = "send" /\ e[i].type = "Decline"

\* C8: m_request_count counts the ARP queries of a stay in CHECKING.  The
\* handler that enters CHECKING sends the first and arms the timer for
\* ArpResponseTimeoutSeconds; a handler that stays in CHECKING either sends
\* none and leaves the timer alone, or (the timer handler only) sends one
\* more, the count not exceeding NumArpQueries, and arms the timer for
\* ArpResponseTimeoutSeconds again; the client leaves CHECKING without a
\* conflict, the link being up, only when NumArpQueries queries have been
\* sent, each with its ArpResponseTimeoutSeconds of armed time.
CheckingSendsNumArpQueries ==
    [][alive' =>
          /\ (m_state # "Checking" /\ m_state' = "Checking") =>
                 /\ m_request_count' = 1
                 /\ ArpQueries(effects') = 1
                 /\ TimersArmed(effects') =
                        <<SecToTicksNoAssert(ArpResponseTimeoutSeconds)>>
          /\ (m_state = "Checking" /\ m_state' = "Checking") =>
                 \/ /\ m_request_count' = m_request_count
                    /\ ArpQueries(effects') = 0
                    /\ TimersArmed(effects') = << >>
                 \/ /\ m_request_count' = m_request_count + 1
                    /\ m_request_count' <= NumArpQueries
                    /\ ArpQueries(effects') = 1
                    /\ TimersArmed(effects') =
                           <<SecToTicksNoAssert(ArpResponseTimeoutSeconds)>>
          /\ (m_state = "Checking" /\ m_state' # "Checking" /\ link_up'
                /\ ~Declined(effects')) =>
                 /\ m_request_count = NumArpQueries
                 /\ ArpQueries(effects') = 0
          /\ m_state = "Checking" =>
                 /\ m_request_count \in 1..NumArpQueries
                 /\ timer_set
                 /\ \A r \in {udpIp4PacketReceived(Enter(0), m) : m \in Messages}
                           \cup {arpInfoReceived(Enter(0), a) : a \in ArpAddrs}
                           \cup {ifaceStateChanged(Enter(0), up) : up \in BOOLEAN}
                           \cup {retrySending(Enter(0))} :
                        ArpQueries(r.effects) = 0
      ]_vars

\* The address check ended without a conflict and the lease was bound.
CheckingLeftForBound ==
    /\ m_state = "Bound" /\ Did("arp_reset") /\ Reported = <<"LeaseObtained">>

\* The datagrams the effects e hold.
Sends(e) == SelectSeq(e, LAMBDA x : x.op = "send")

\* C9: in SELECTING m_request_count counts the DISCOVERs sent with the current
\* XID, from 1 (on entry, with a new XID) to XidReuseMax.  Every timer expiry
\* sends one DISCOVER: with the same XID while fewer than XidReuseMax were
\* sent with it, and with a new XID and the count back to 1 on the expiry that
\* follows the XidReuseMax-th.
XidReusedThenRegenerated ==
    (Running /\ m_state = "Selecting") =>
        /\ m_request_count \in 1..XidReuseMax
        /\ Entered("Selecting") => (m_request_count = 1 /\ Did("new_xid"))
        /\ timer_set
        /\ \A d \in 0..MaxLatency :
              \E r \in {TimerFired(d)} :
                  /\ r.m_state = "Selecting"
                  /\ Len(Sends(r.effects)) = 1
                  /\ Sends(r.effects)[1].type = "Discover"
                  /\ Sends(r.effects)[1].xid = r.m_xid
                  /\ IF m_request_count = XidReuseMax
                     THEN /\ r.m_xid # m_xid
                          /\ r.m_request_count = 1
                     ELSE /\ r.m_xid = m_xid
                          /\ r.m_request_count = m_request_count + 1

\* A timer expiry in SELECTING has just regenerated the XID.
XidRegenerated ==
    /\ m_state = "Selecting" /\ ~Did("state")
    /\ Did("new_xid") /\ Did("send") /\ m_request_count = 1

\* C10: in SELECTING, REQUESTING and REBOOTING the retransmission timeout is
\* BaseRtxTimeoutSeconds when the state is entered and, after a timer expiry
\* that retransmits, the smaller of twice the previous timeout and
\* MaxRtxTimeoutSeconds (in plain integers: the 8-bit member does not wrap); it
\* does not decrease, stays within [BaseRtxTimeoutSeconds,
\* MaxRtxTimeoutSeconds], and the timer is armed for it.
RtxTimeoutDoublesToCap ==
    (Running /\ m_state \in {"Selecting", "Requesting", "Rebooting"}) =>
        /\ m_rtx_timeout >= BaseRtxTimeoutSeconds
        /\ m_rtx_timeout <= MaxRtxTimeoutSeconds
        /\ m_rtx_timeout <= 255
        /\ Entered(m_state) =>
              /\ m_rtx_timeout = BaseRtxTimeoutSeconds
              /\ TimersArmed(effects) = <<SecToTicksNoAssert(BaseRtxTimeoutSeconds)>>
        /\ timer_set
        /\ \A d \in 0..MaxLatency :
              \E r \in {TimerFired(d)} :
                  (r.m_state = m_state
                     /\ \A i \in DOMAIN r.effects : r.effects[i].op # "state") =>
                      /\ r.m_rtx_timeout = MinValue(2 * m_rtx_timeout, MaxRtxTimeoutSeconds)
                      /\ r.m_rtx_timeout >= m_rtx_timeout
                      /\ r.timer_set
                      /\ r.timer_time = r.now + SecToTicksNoAssert(r.m_rtx_timeout)

\* Retransmissions of DISCOVER have brought the timeout to its cap.
RtxTimeoutAtCap ==
    /\ m_state = "Selecting" /\ Did("send") /\ Did("timer_set")
    /\ m_rtx_timeout = MaxRtxTimeoutSeconds

\* C11: at every handler boundary the ARP observer is subscribed if and only
\* if the state is CHECKING.  So an ARP observation, which the observer
\* delivers only while subscribed, reaches arpInfoReceived in CHECKING only
\* (its assertion holds for every observation), and no handler subscribes an
\* observer that is already subscribed (the assertion of arp_observe holds):
\* no handler has failed an assertion.
ArpObserverIffChecking ==
    /\ alive => (arp_observing <=> m_state = "Checking")
    /\ ~alive => ~arp_observing
    /\ Did("arp_observe") => (m_state = "Checking" /\ Entered("Checking"))
    /\ ~assert_failed
    /\ (Running /\ arp_observing) =>
          \A ip_addr \in ArpAddrs :
              ~arpInfoReceived(Enter(0), ip_addr).assert_failed

\* C11 witness: an ARP observation was delivered in CHECKING, and the handler
\* unsubscribed the observer as it left the state.
ArpObserverResetOnConflict ==
    /\ alive
    /\ m_state = "Resetting"
    /\ Did("arp_reset")
    /\ Declined(effects)
    /\ ~arp_observing

\* C12: at every handler boundary the one-shot timer is armed if and only if
\* the state is not LINK_DOWN.  The timer handler, which is entered with the
\* timer no longer set, always ends in a state other than LINK_DOWN and has
\* armed the timer again; a handler that enters LINK_DOWN has unset the timer,
\* and a handler that enters any other state has armed it.
TimerArmedIffNotLinkDown ==
    /\ alive => (timer_set <=> m_state # "LinkDown")
    /\ ~alive => ~timer_set
    /\ Entered("LinkDown") => (Did("timer_unset") /\ ~Did("timer_set"))
    /\ (\E i \in DOMAIN effects :
            effects[i].op = "state" /\ effects[i].to # "LinkDown") => Did("timer_set")
    /\ (Running /\ timer_set) =>
          \A d \in 0..MaxLatency :
              \E r \in {TimerFired(d)} :
                  /\ r.m_state # "LinkDown"
                  /\ r.timer_set
                  /\ \E i \in DOMAIN r.effects : r.effects[i].op = "timer_set"

\* C12 witness: the link went down while the timer was armed, and the handler
\* has unset it.
TimerUnsetOnLinkDown ==
    /\ alive
    /\ m_state = "LinkDown"
    /\ Entered("LinkDown")
    /\ Did("timer_unset")
    /\ ~timer_set

\* C13: in every reachable state BOUND, RENEWING or REBINDING
\* m_lease_time_passed <= m_info.lease_time_s, so the assertion at the top of
\* handleTimerBoundRenewingRebinding holds whenever the timer fires there, and
\* an ACK accepted while a lease is held (also one with a shorter lease time)
\* leaves the inequality true.
LeaseTimePassedWithinLease ==
    /\ (alive /\ Leased) => m_lease_time_passed <= m_info.lease_time_s
    /\ (Running /\ Leased) =>
          /\ timer_set
          /\ \A d \in 0..MaxLatency :
                \E r \in {TimerFired(d)} :
                    /\ ~r.assert_failed
                    /\ hasLease(r) => r.m_lease_time_passed <= r.m_info.lease_time_s
          /\ \A times \in AckTimes :
                \E r \in {udpIp4PacketReceived(Enter(0),
                              Reply("Ack", m_info.dhcp_server_identifier,
                                    m_info.dhcp_server_addr, m_info.ip_address, times))} :
                    /\ ~r.assert_failed
                    /\ hasLease(r) => r.m_lease_time_passed <= r.m_info.lease_time_s

\* C13 witness: in RENEWING or REBINDING an ACK is accepted whose lease time is
\* shorter than the time already passed of the lease it replaces.
ShorterLeaseAccepted ==
    /\ Running
    /\ m_state \in {"Renewing", "Rebinding"}
    /\ \E times \in AckTimes :
          \E r \in {udpIp4PacketReceived(Enter(0),
                        Reply("Ack", m_info.dhcp_server_identifier,
                              m_info.dhcp_server_addr, m_info.ip_address, times))} :
              /\ r.m_state = "Bound"
              /\ r.m_info.lease_time_s < m_lease_time_passed
              /\ r.m_lease_time_passed <= r.m_info.lease_time_s

\* The NAKs of the client's current transaction, from either server.
Naks ==
    {Reply("Nak", id, addr, AddrA, PlainTimes) :
        id \in {ServerIdA, ServerIdB}, addr \in {ServerAddrA, ServerAddrB}}

\* The latest handler's effects e send exactly one message, of the given type.
SendsOne(e, type) == Len(Sends(e)) = 1 /\ Sends(e)[1].type = type

\* C14: in REQUESTING a NAK with the client's XID whose server identifier is
\* the one stored from the OFFER moves the client to RESETTING with the timer
\* armed ResetTimeoutSeconds ahead and sends nothing; a NAK with another
\* server identifier returns the client unchanged.  In RESETTING no datagram,
\* send retry or link-up notification makes the client send or leave the
\* state; the timer handler is the one that does: it enters SELECTING with a
\* new XID and sends one DISCOVER.
NakInRequestingDelaysDiscovery ==
    /\ (Running /\ m_state = "Requesting") =>
          \A m \in Naks :
              \E r \in {udpIp4PacketReceived(Enter(0), m)} :
                  IF m.opts.dhcp_server_identifier = m_info.dhcp_server_identifier
                  THEN /\ r.m_state = "Resetting"
                       /\ r.timer_set
                       /\ r.timer_time = SecToTicksNoAssert(ResetTimeoutSeconds)
                       /\ Sends(r.effects) = << >>
                       /\ ~r.assert_failed
                  ELSE r = Enter(0)
    /\ (Running /\ m_state = "Resetting") =>
          /\ timer_set
          /\ \A msg \in Messages : udpIp4PacketReceived(Enter(0), msg) = Enter(0)
          /\ retrySending([Enter(0) EXCEPT !.retry_pending = FALSE]).effects = << >>
          /\ ifaceStateChanged(Enter(0), TRUE) = Enter(0)
          /\ \A d \in 0..MaxLatency :
                \E r \in {TimerFired(d)} :
                    /\ r.m_state = "Selecting"
                    /\ SendsOne(r.effects, "Discover")
                    /\ \E i \in DOMAIN r.effects : r.effects[i].op = "new_xid"

\* C14 witness: RESETTING was entered by a handler that sent no DECLINE, that
\* is by a NAK in REQUESTING, and the timer is armed.
ResettingAfterNak ==
    /\ Running
    /\ m_state = "Resetting"
    /\ Entered("Resetting")
    /\ ~Declined(effects)
    /\ timer_set
    /\ timer_time = SecToTicksNoAssert(ResetTimeoutSeconds)

\* The events reported to the user among the effects e, in order.
ReportedIn(e) ==
    LET cbs == SelectSeq(e, LAMBDA x : x.op = "callback")
    IN  [i \in 1..Len(cbs) |-> cbs[i].event]

\* The state changes among the effects e, in order.
StatesIn(e) ==
    LET sts == SelectSeq(e, LAMBDA x : x.op = "state")
    IN  [i \in 1..Len(sts) |-> sts[i].to]

\* C15: in RENEWING, REBINDING or REBOOTING a NAK with the client's XID, from
\* any server, takes the client to SELECTING within the handler: the only
\* state it sets is SELECTING, it generates an XID and sends one DISCOVER
\* carrying it.  From RENEWING or REBINDING the address and gateway are
\* withdrawn and LeaseLost is the one event reported (to a client that has a
\* handler); from REBOOTING the interface is not touched and nothing is
\* reported.
NakRestartsDiscoveryAtOnce ==
    (Running /\ m_state \in {"Renewing", "Rebinding", "Rebooting"}) =>
        \A m \in Naks :
            \E r \in {udpIp4PacketReceived(Enter(0), m)} :
                /\ r.m_state = "Selecting"
                /\ StatesIn(r.effects) = <<"Selecting">>
                /\ \E i \in DOMAIN r.effects : r.effects[i].op = "new_xid"
                /\ SendsOne(r.effects, "Discover")
                /\ Sends(r.effects)[1].xid = r.m_xid
                /\ r.m_xid = Uint32(r.now)
                /\ r.timer_set
                /\ ~r.assert_failed
                /\ IF m_state \in {"Renewing", "Rebinding"}
                   THEN /\ r.iface_addr = NoAddr
                        /\ r.iface_gw = NoGateway
                        /\ \E i \in DOMAIN r.effects : r.effects[i].op = "set_addr"
                        /\ ReportedIn(r.effects) =
                              IF m_handler THEN <<"LeaseLost">> ELSE << >>
                   ELSE /\ ReportedIn(r.effects) = << >>
                        /\ \A i \in DOMAIN r.effects :
                              r.effects[i].op \notin {"set_addr", "set_gateway"}

\* C15 witness: a client in RENEWING that has a handler and an assigned address
\* receives a NAK, and the handler reports LeaseLost.
NakWhileRenewing ==
    /\ Running
    /\ m_state = "Renewing"
    /\ m_handler
    /\ iface_addr # NoAddr
    /\ \E m \in Naks :
          ReportedIn(udpIp4PacketReceived(Enter(0), m).effects) = <<"LeaseLost">>

\* The number of REQUESTs the timer schedules in state st.
RequestLimit(st) == IF st = "Rebooting" THEN MaxRebootRequests ELSE MaxRequests

\* C16: in REQUESTING and REBOOTING m_request_count counts the REQUESTs the
\* timer has scheduled, the one sent on entry included: it is 1 on entry and
\* never above MaxRequests (MaxRebootRequests in REBOOTING).  A datagram
\* either is accepted (the state changes) or leaves the client as it is, and a
\* send retry leaves the count alone.  The timer handler sends one more REQUEST
\* with the same XID and counts it while the count is below the limit; at the
\* limit it clears the remembered address, generates an XID, enters SELECTING
\* and sends one DISCOVER.
RequestsLimitedThenDiscovery ==
    (Running /\ m_state \in {"Requesting", "Rebooting"}) =>
        /\ m_request_count \in 1..RequestLimit(m_state)
        /\ Entered(m_state) => (m_request_count = 1 /\ SendsOne(effects, "Request"))
        /\ timer_set
        /\ \A msg \in Messages :
              \E r \in {udpIp4PacketReceived(Enter(0), msg)} :
                  r = Enter(0) \/ r.m_state # m_state
        /\ \E r \in {retrySending([Enter(0) EXCEPT !.retry_pending = FALSE])} :
              /\ r.m_state = m_state
              /\ r.m_request_count = m_request_count
        /\ \A d \in 0..MaxLatency :
              \E r \in {TimerFired(d)} :
                  IF m_request_count < RequestLimit(m_state)
                  THEN /\ r.m_state = m_state
                       /\ r.m_request_count = m_request_count + 1
                       /\ SendsOne(r.effects, "Request")
                       /\ Sends(r.effects)[1].xid = m_xid
                       /\ r.m_info.ip_address = m_info.ip_address
                       /\ StatesIn(r.effects) = << >>
                  ELSE /\ r.m_state = "Selecting"
                       /\ StatesIn(r.effects) = <<"Selecting">>
                       /\ r.m_info.ip_address = ZeroAddr
                       /\ \E i \in DOMAIN r.effects : r.effects[i].op = "new_xid"
                       /\ r.m_xid = Uint32(r.now)
                       /\ SendsOne(r.effects, "Discover")
                       /\ Sends(r.effects)[1].xid = r.m_xid
                       /\ r.m_request_count = 1

\* C16 witness: the last REQUEST of REQUESTING has been sent by the timer
\* handler, and the next expiry gives up.
RequestsExhausted ==
    /\ Running
    /\ m_state = "Requesting"
    /\ m_request_count = MaxRequests
    /\ SendsOne(effects, "Request")
    /\ Did("timer_set")
    /\ ~Entered("Requesting")
    /\ TimerFired(0).m_state = "Selecting"

\* C17: when ifaceStateChanged finds the link down in a state other than
\* LINK_DOWN, the client ends in LINK_DOWN with the timer unset, the ARP
\* observer unsubscribed and no send-retry request pending, and has sent
\* nothing.  If a lease was held the address and the gateway are withdrawn and
\* LinkDown is the one event reported (to a client that has a handler);
\* otherwise the interface is not touched and nothing is reported.
LinkDownStopsClient ==
    (Running /\ m_state # "LinkDown") =>
        \E r \in {ifaceStateChanged(Enter(0), FALSE)} :
            /\ r.m_state = "LinkDown"
            /\ StatesIn(r.effects) = <<"LinkDown">>
            /\ ~r.timer_set
            /\ ~r.arp_observing
            /\ ~r.retry_pending
            /\ Sends(r.effects) = << >>
            /\ ~r.assert_failed
            /\ IF Leased
               THEN /\ r.iface_addr = NoAddr
                    /\ r.iface_gw = NoGateway
                    /\ \E i \in DOMAIN r.effects : r.effects[i].op = "set_addr"
                    /\ \E i \in DOMAIN r.effects : r.effects[i].op = "set_gateway"
                    /\ ReportedIn(r.effects) = IF m_handler THEN <<"LinkDown">> ELSE << >>
               ELSE /\ \A i \in DOMAIN r.effects :
                          r.effects[i].op \notin {"set_addr", "set_gateway"}
                    /\ r.iface_addr = iface_addr
                    /\ r.iface_gw = iface_gw
                    /\ ReportedIn(r.effects) = << >>

\* C17 witness: the link goes down under a client that waits in CHECKING with
\* a send-retry request pending, the ARP observer subscribed and no lease.
LinkLostWhileChecking ==
    /\ Running
    /\ m_state = "Checking"
    /\ m_handler
    /\ retry_pending
    /\ arp_observing
    /\ \E r \in {ifaceStateChanged(Enter(0), FALSE)} :
          r.m_state = "LinkDown" /\ ReportedIn(r.effects) = << >>

\* What start_discovery_or_rebooting has to leave behind, as r, in a client
\* that remembered the address addr: REBOOTING and one REQUEST for addr when
\* addr is not zero, SELECTING and one DISCOVER when it is.
RebootsOrDiscovers(r, addr) ==
    /\ ~r.assert_failed
    /\ r.timer_set
    /\ r.m_info.ip_address = addr
    /\ IF addr # ZeroAddr
       THEN /\ r.m_state = "Rebooting"
            /\ StatesIn(r.effects) = <<"Rebooting">>
            /\ SendsOne(r.effects, "Request")
            /\ "requested_ip_address" \in Sends(r.effects)[1].opts.have
            /\ Sends(r.effects)[1].opts.requested_ip_address = addr
       ELSE /\ r.m_state = "Selecting"
            /\ StatesIn(r.effects) = <<"Selecting">>
            /\ SendsOne(r.effects, "Discover")

\* C18: a link-up notification in LINK_DOWN, and construction with the link
\* up, enter REBOOTING with a REQUEST for the remembered address when that
\* address is not zero, and SELECTING with a DISCOVER otherwise.  The address
\* remembered in LINK_DOWN is the configured request_ip_address at
\* construction, and after a link loss the address of the lease then held or
\* of the reboot then under way, zero otherwise.  Construction with the link
\* down leaves the client in LINK_DOWN with nothing sent and no timer.
LinkUpRebootsOrDiscovers ==
    /\ (Running /\ m_state = "LinkDown") =>
          RebootsOrDiscovers(ifaceStateChanged(Enter(0), TRUE), m_info.ip_address)
    /\ (Running /\ m_state # "LinkDown") =>
          ifaceStateChanged(Enter(0), FALSE).m_info.ip_address =
              IF Leased \/ m_state = "Rebooting" THEN m_info.ip_address ELSE ZeroAddr
    /\ \A opts \in InitOptions, handler \in InitHandlers :
          /\ RebootsOrDiscovers(IpDhcpClient(opts, handler, TRUE),
                                opts.request_ip_address)
          /\ \E r \in {IpDhcpClient(opts, handler, FALSE)} :
                /\ r.m_state = "LinkDown"
                /\ r.effects = << >>
                /\ ~r.timer_set
                /\ r.m_info.ip_address = opts.request_ip_address

\* C18 witness: the link has come back to a client that lost it while it held
\* a lease of an address that was not configured, and the client reboots with
\* that address.
RebootingWithLeasedAddress ==
    /\ Running
    /\ m_state = "Rebooting"
    /\ Entered("Rebooting")
    /\ m_info.ip_address = AddrB
    /\ SendsOne(effects, "Request")
    /\ Sends(effects)[1].opts.requested_ip_address = AddrB

\* C19: in CHECKING the candidate address is not assigned to the interface.
\* An ARP observation for the candidate address makes the client send one
\* DECLINE naming the address and the server, unsubscribe the ARP observer and
\* enter RESETTING with the timer armed ResetTimeoutSeconds ahead, the
\* interface still without address; an observation for another address
\* returns the client unchanged.  In RESETTING the interface has no address,
\* and the timer handler enters SELECTING with a new XID, the declined address
\* forgotten, and sends one DISCOVER.
ArpConflictDeclinesAndResets ==
    /\ (Running /\ m_state = "Checking") =>
          /\ iface_addr = NoAddr
          /\ \A ip_addr \in ArpAddrs :
                \E r \in {arpInfoReceived(Enter(0), ip_addr)} :
                    IF ip_addr = m_info.ip_address
                    THEN /\ r.m_state = "Resetting"
                         /\ StatesIn(r.effects) = <<"Resetting">>
                         /\ SendsOne(r.effects, "Decline")
                         /\ Sends(r.effects)[1].opts.requested_ip_address = ip_addr
                         /\ Sends(r.effects)[1].opts.dhcp_server_identifier =
                                m_info.dhcp_server_identifier
                         /\ Sends(r.effects)[1].in_state = "Checking"
                         /\ ~r.arp_observing
                         /\ r.timer_set
                         /\ r.timer_time = SecToTicksNoAssert(ResetTimeoutSeconds)
                         /\ r.iface_addr = NoAddr
                         /\ \A i \in DOMAIN r.effects : r.effects[i].op # "set_addr"
                         /\ ReportedIn(r.effects) = << >>
                         /\ ~r.assert_failed
                    ELSE r = Enter(0)
    /\ (Running /\ m_state = "Resetting") =>
          /\ iface_addr = NoAddr
          /\ \A d \in 0..MaxLatency :
                \E r \in {TimerFired(d)} :
                    /\ r.m_state = "Selecting"
                    /\ r.m_info.ip_address = ZeroAddr
                    /\ r.m_xid = Uint32(r.now)
                    /\ SendsOne(r.effects, "Discover")
                    /\ Sends(r.effects)[1].xid = r.m_xid
                    /\ r.iface_addr = NoAddr

\* C19 witness: the latest handler has declined the candidate address and
\* left CHECKING for RESETTING.
DeclinedAndResetting ==
    /\ Running
    /\ m_state = "Resetting"
    /\ Entered("Resetting")
    /\ SendsOne(effects, "Decline")
    /\ Did("arp_reset")
    /\ timer_time = SecToTicksNoAssert(ResetTimeoutSeconds)
    /\ iface_addr = NoAddr

\* ------------------------------------------------------------------------
\* A lease that is not renewed: while the client holds a lease the link stays
\* up and no ACK arrives; the event loop dispatches an expired timer.
\* ------------------------------------------------------------------------
\* The replies of one server to the client's current transaction.
UnrenewedReplies == {BaseReply(type) : type \in {"Offer", "Ack", "Nak"}}

\* A reply arrives on the DHCP client port; a client that holds a lease gets no
\* ACK.
ReceiveUnrenewed ==
    /\ Running
    /\ \E msg \in UnrenewedReplies :
         /\ Leased => msg.opts.dhcp_message_type # "Ack"
         /\ \E r \in {udpIp4PacketReceived(Enter(0), msg)} :
                /\ \E s \in SendOutcomes(r) : Commit(s)
                /\ idle' = IdleAfter(r)
    /\ UNCHANGED <<link_up, alive>>
    /\ UNCHANGED tcp_vars

\* The interface reports a driver state change; under a client that holds a
\* lease the link is up.
LinkKeptUp ==
    /\ Running
    /\ \E up \in BOOLEAN :
         /\ Leased => up
         /\ \E r \in {ifaceStateChanged(Enter(0), up)} :
                /\ link_up' = up
                /\ \E s \in SendOutcomes(r) : Commit(s)
                /\ idle' = IdleAfter(r)
    /\ UNCHANGED alive
    /\ UNCHANGED tcp_vars

UnrenewedNext ==
    \/ TimerFire
    \/ ReceiveUnrenewed
    \/ ArpInfo
    \/ LinkKeptUp
    \/ Retry
    \/ Destroy
    \/ TimePasses

\* The timer's callback is dispatched once the timer has expired.
UnrenewedSpec == Init /\ [][UnrenewedNext]_vars /\ WF_vars(TimerFire)

\* The latest handler was the timer's, found the lease run out, withdrew the
\* address and restarted discovery.
LeaseExpiredAtFire ==
    /\ alive
    /\ Did("timer_expired")
    /\ Entered("Selecting")
    /\ Did("set_addr")
    /\ iface_addr = NoAddr
    /\ SendsOne(effects, "Discover")

\* The latest handler was not the timer's and withdrew the address: with the
\* link up and no ACK, it accepted a NAK.
LeaseLostToNak ==
    /\ alive
    /\ ~Did("timer_expired")
    /\ Entered("Selecting")
    /\ Did("set_addr")
    /\ iface_addr = NoAddr

\* The timer handler applied to a lease state: when the time the timer was set
\* for plus the time measured since is at least lease_time_s it withdraws the
\* address and gateway, reports LeaseLost (to a client that has a handler),
\* enters SELECTING and sends one DISCOVER; otherwise the lease, the address
\* and the gateway stay and nothing is reported.
ExpiryFireWithdraws ==
    (Running /\ Leased) =>
        \A d \in 0..MaxLatency :
            \E r \in {TimerFired(d)} :
                LET passed_sec == TicksToSec(MaxValue(0, timer_time) + d - timer_time)
                IN  IF m_lease_time_passed + passed_sec >= m_info.lease_time_s
                    THEN /\ r.m_state = "Selecting"
                         /\ StatesIn(r.effects) = <<"Selecting">>
                         /\ r.iface_addr = NoAddr
                         /\ r.iface_gw = NoGateway
                         /\ ReportedIn(r.effects) =
                               IF m_handler THEN <<"LeaseLost">> ELSE << >>
                         /\ SendsOne(r.effects, "Discover")
                    ELSE /\ hasLease(r)
                         /\ r.iface_addr = iface_addr
                         /\ r.iface_gw = iface_gw
                         /\ ReportedIn(r.effects) = << >>

\* The latest handler accepted an ACK: it entered CHECKING, or entered BOUND
\* and was not the timer's.
AckAccepted ==
    /\ alive
    /\ Entered("Checking") \/ (Entered("Bound") /\ ~Did("timer_expired"))

\* C20 as the spec states it: a client that holds a lease eventually has the
\* timer fire that finds the lease run out, unless the link goes down, an ACK
\* is accepted or the client is destroyed.
LeaseRunsToExpiryFire ==
    Leased ~> (LeaseExpiredAtFire \/ AckAccepted \/ ~link_up \/ ~alive)

\* C20: with the link up, no ACK and the timer dispatched, a client that holds
\* a lease eventually has the timer fire that finds the lease run out, unless
\* a NAK ends the lease or the client is destroyed before; the fire that finds
\* the lease run out withdraws the address, reports LeaseLost, enters
\* SELECTING and sends a DISCOVER, and every earlier fire keeps the lease.
LeaseEndsAtExpiryFire ==
    /\ []ExpiryFireWithdraws
    /\ Leased ~> (LeaseExpiredAtFire \/ LeaseLostToNak \/ ~alive)

\* C20 witness: the timer has fired on a run-out lease of a client with a
\* handler, and LeaseLost was reported.
LeaseLostAtExpiryFire ==
    /\ LeaseExpiredAtFire
    /\ m_handler
    /\ Reported = <<"LeaseLost">>
    /\ link_up

\* ------------------------------------------------------------------------
\* C21.  TcpListener: listening is exclusive per (address, port).
\* ------------------------------------------------------------------------
\* Another listener than l listens on (addr, port).
ListenedByOther(l, addr, port) ==
    \E o \in Listeners \ {l} :
        /\ isListening(Tcp, o)
        /\ listeners[o].m_addr = addr
        /\ listeners[o].m_port = port

\* C21: in every reachable state a startListening call made as its
\* preconditions allow (listener not listening, max_pcbs > 0) returns true and
\* leaves the listener listening, except when another listener listens on the
\* same address and port: then it returns false and leaves the listener not
\* listening; no two listening listeners have the same (address, port); and a
\* reset call leaves the listener not listening with no accept pending.
ListeningIsExclusive ==
    /\ \A l \in Listeners, params \in ListenParams :
         \A r \in {startListening(Tcp, l, params)} :
             (~tcp_assert_failed /\ ~r.assert_failed) =>
                 /\ r.ret = ~ListenedByOther(l, params.addr, params.port)
                 /\ isListening(r, l) = r.ret
    /\ \A l1, l2 \in Listeners :
         (/\ l1 # l2
          /\ isListening(Tcp, l1)
          /\ isListening(Tcp, l2)
          /\ listeners[l1].m_addr = listeners[l2].m_addr)
         => listeners[l1].m_port # listeners[l2].m_port
    /\ \A l \in Listeners :
         \A r \in {reset(Tcp, l)} : ~isListening(r, l) /\ ~hasAcceptPending(r, l)
    /\ tcp_call.op = "reset" =>
         ~isListening(Tcp, tcp_call.lis) /\ ~hasAcceptPending(Tcp, tcp_call.lis)

\* Witness of C21: a startListening call has just been refused, the listener
\* is not listening and another listener is.
StartListeningRefused ==
    /\ tcp_call.op = "startListening"
    /\ ~tcp_assert_failed
    /\ ~tcp_call.ret
    /\ ~isListening(Tcp, tcp_call.lis)
    /\ \E o \in Listeners \ {tcp_call.lis} : isListening(Tcp, o)

\* ------------------------------------------------------------------------
\* C22.  BOUND -> RENEWING -> REBINDING at the timer.
\* ------------------------------------------------------------------------
\* lease_time_elapsed as the timer handler measures it when it is entered d
\* ticks after the timer became due: m_lease_time_passed plus the whole
\* seconds passed since the expiry time the timer was set for (which may lie
\* in the past already when the timer is set).
ElapsedAtFire(d) ==
    m_lease_time_passed + TicksToSec(MaxValue(0, timer_time) + d - timer_time)

\* The timer handler, entered d ticks late, moves the client to state st: st
\* is the one state it sets, it generates an XID, and it sends one REQUEST,
\* in state st, carrying that XID.
FireTransitionsTo(d, st) ==
    \E r \in {TimerFired(d)} :
        /\ r.m_state = st
        /\ StatesIn(r.effects) = <<st>>
        /\ \E i \in DOMAIN r.effects : r.effects[i].op = "new_xid"
        /\ r.m_xid = Uint32(r.now)
        /\ SendsOne(r.effects, "Request")
        /\ Sends(r.effects)[1].in_state = st
        /\ Sends(r.effects)[1].xid = r.m_xid
        /\ ~r.assert_failed

\* C22 as stated: a fire in BOUND with renewal_time_s <= lease_time_elapsed <
\* lease_time_s gives RENEWING, a fire in RENEWING with rebinding_time_s <=
\* lease_time_elapsed < lease_time_s gives REBINDING, each with a new XID and
\* a REQUEST sent in the new state.
RenewalTimeGivesRenewing ==
    (Running /\ timer_set) =>
        \A d \in 0..MaxLatency :
            /\ (/\ m_state = "Bound"
                /\ ElapsedAtFire(d) >= m_info.renewal_time_s
                /\ ElapsedAtFire(d) < m_info.lease_time_s)
               => FireTransitionsTo(d, "Renewing")
            /\ (/\ m_state = "Renewing"
                /\ ElapsedAtFire(d) >= m_info.rebinding_time_s
                /\ ElapsedAtFire(d) < m_info.lease_time_s)
               => FireTransitionsTo(d, "Rebinding")

\* C22 (amended): a fire in BOUND with renewal_time_s <= lease_time_elapsed <
\* rebinding_time_s gives RENEWING; a fire in BOUND or RENEWING with
\* rebinding_time_s <= lease_time_elapsed < lease_time_s gives REBINDING (from
\* BOUND, RENEWING is skipped); each transition generates a new XID and sends
\* one REQUEST, in the new state, with that XID.
RenewalThenRebindingAtFire ==
    (Running /\ timer_set) =>
        \A d \in 0..MaxLatency :
            /\ (/\ m_state = "Bound"
                /\ ElapsedAtFire(d) >= m_info.renewal_time_s
                /\ ElapsedAtFire(d) < m_info.rebinding_time_s)
               => FireTransitionsTo(d, "Renewing")
            /\ (/\ m_state \in {"Bound", "Renewing"}
                /\ ElapsedAtFire(d) >= m_info.rebinding_time_s
                /\ ElapsedAtFire(d) < m_info.lease_time_s)
               => FireTransitionsTo(d, "Rebinding")

\* Witness of C22: the timer fires in BOUND past the rebinding time of an
\* unexpired lease, and the handler moves the client to REBINDING.
BoundSkipsToRebinding ==
    /\ Running
    /\ timer_set
    /\ m_state = "Bound"
    /\ \E d \in 0..MaxLatency :
          /\ ElapsedAtFire(d) >= m_info.rebinding_time_s
          /\ ElapsedAtFire(d) < m_info.lease_time_s
          /\ FireTransitionsTo(d, "Rebinding")

\* ------------------------------------------------------------------------
\* Third specification: renewal.  The client of Spec with a server that
\* offers and acknowledges, where replies to the REQUESTs of RENEWING and
\* REBINDING may come up to MaxRenewIdle ticks late and leases may be far
\* longer than MaxTimerSeconds.
\* ------------------------------------------------------------------------
MaxRenewIdle ==
    4

\* The times of an ACK whose lease, renewal and rebinding times all exceed
\* MaxTimerSeconds.
LongTimes ==
    [have |-> {"ip_address_lease_time"}, lease |-> 3000, renewal |-> 0, rebinding |-> 0]

\* The replies of the renewal specification: an OFFER, server A's ACK with each
\* of AckTimes and LongTimes, and server B's ACK of another address.
RenewalReplies ==
    {BaseReply("Offer"), Reply("Ack", ServerIdB, ServerAddrB, AddrB, PlainTimes)}
    \cup {Reply("Ack", ServerIdA, ServerAddrA, AddrA, times) :
            times \in AckTimes \cup {LongTimes}}

\* A reply arrives.
ReceiveRenewal ==
    /\ Running
    /\ \E msg \in RenewalReplies :
         \E r \in {udpIp4PacketReceived(Enter(0), msg)} :
             /\ \E s \in SendOutcomes(r) : Commit(s)
             /\ idle' = IdleAfter(r)
    /\ UNCHANGED <<link_up, alive>>
    /\ UNCHANGED tcp_vars

\* One tick passes with no handler running; in RENEWING and REBINDING up to
\* MaxRenewIdle ticks may pass after the timer was armed.
TimePassesRenewing ==
    /\ Running
    /\ idle < (IF m_state \in {"Renewing", "Rebinding"} THEN MaxRenewIdle ELSE MaxIdle)
    /\ timer_set => timer_time > 0
    /\ Commit([Cur EXCEPT !.now = 1, !.effects = << >>])
    /\ idle' = idle + 1
    /\ UNCHANGED <<link_up, alive>>
    /\ UNCHANGED tcp_vars

RenewalNext ==
    \/ TimerFire
    \/ ReceiveRenewal
    \/ TimePassesRenewing

RenewalSpec == Init /\ [][RenewalNext]_vars

\* ------------------------------------------------------------------------
\* C23.  An ACK accepted in RENEWING or REBINDING.
\* ------------------------------------------------------------------------
\* The ACKs among the replies of the renewal specification.
RenewalAcks == {m \in RenewalReplies : m.opts.dhcp_message_type = "Ack"}

\* The ACK m passes the checks made of an ACK in RENEWING and REBINDING.
AcceptedWhileRenewing(m) ==
    /\ checkAndFixupAck(m.yiaddr, m.opts).ok
    /\ m_lease_time_passed - m_request_send_time_passed <= MaxTimerSeconds

\* The lease record the ACK m gives.
LeaseRecordOf(m) ==
    LET fopts == checkAndFixupAck(m.yiaddr, m.opts).opts
    IN  [ip_address |-> m.yiaddr,
         dhcp_server_identifier |-> m.opts.dhcp_server_identifier,
         dhcp_server_addr |-> m.src_addr,
         lease_time_s |-> m.opts.ip_address_lease_time,
         renewal_time_s |-> fopts.renewal_time,
         rebinding_time_s |-> fopts.rebinding_time,
         subnet_mask |-> fopts.subnet_mask,
         have_router |-> "router" \in fopts.have,
         router |-> IF "router" \in fopts.have THEN fopts.router ELSE ZeroAddr]

\* The handler has left the client r in BOUND with the lease of the ACK m: the
\* lease record is replaced, the address and gateway of the new record are
\* set on the interface and LeaseRenewed is the event reported (to a client
\* that has a handler).
RenewedWith(r, m) ==
    /\ r.m_state = "Bound"
    /\ StatesIn(r.effects) = <<"Bound">>
    /\ r.m_info = LeaseRecordOf(m)
    /\ r.iface_addr = [present |-> TRUE,
                       prefix |-> countLeadingOnes(r.m_info.subnet_mask),
                       addr |-> m.yiaddr]
    /\ r.iface_gw = IF r.m_info.have_router
                    THEN [present |-> TRUE, addr |-> r.m_info.router]
                    ELSE NoGateway
    /\ \E i \in DOMAIN r.effects : r.effects[i].op = "set_addr"
    /\ \E i \in DOMAIN r.effects : r.effects[i].op = "set_gateway"
    /\ ReportedIn(r.effects) = IF m_handler THEN <<"LeaseRenewed">> ELSE << >>
    /\ r.timer_set
    /\ ~r.assert_failed

\* In RENEWING and REBINDING m_request_send_time is the time the timer handler
\* last sent a REQUEST, idle ticks ago.
SendTimeIsLatestTimerRequest ==
    (Running /\ m_state \in {"Renewing", "Rebinding"}) =>
        /\ m_request_send_time = 0 - idle
        /\ (idle = 0 /\ Did("timer_expired")) => SendsOne(effects, "Request")

\* C23 as stated: an ACK accepted in RENEWING or REBINDING gives BOUND with
\* the lease record replaced, the interface configured anew and LeaseRenewed
\* reported, and the timer armed min(renewal_time_s, MaxTimerSeconds) seconds
\* after the send time of the latest timer-driven REQUEST.
AckRenewsUntilRenewalTime ==
    /\ SendTimeIsLatestTimerRequest
    /\ (Running /\ m_state \in {"Renewing", "Rebinding"}) =>
         \A m \in RenewalAcks :
             AcceptedWhileRenewing(m) =>
                 \E r \in {udpIp4PacketReceived(Enter(0), m)} :
                     /\ RenewedWith(r, m)
                     /\ r.timer_time = m_request_send_time
                           + SecToTicksNoAssert(MinValue(r.m_info.renewal_time_s,
                                                         MaxTimerSeconds))

\* C23 (amended): with passed the whole seconds since the send time of the
\* latest timer-driven REQUEST, an ACK accepted in RENEWING or REBINDING whose
\* lease time exceeds passed gives BOUND with the lease record replaced, the
\* interface configured anew and LeaseRenewed reported; the elapsed time of
\* the new lease counts from that send time, and the timer is armed at the
\* send time plus max(passed, min(renewal_time_s, passed + MaxTimerSeconds))
\* seconds.  An ACK whose lease time is passed or less ends the lease at
\* once: the address is withdrawn, LeaseLost is reported and the client is in
\* SELECTING with a DISCOVER sent.
AckRenewsOrLeaseEnds ==
    /\ SendTimeIsLatestTimerRequest
    /\ (Running /\ m_state \in {"Renewing", "Rebinding"}) =>
         \A m \in RenewalAcks :
             AcceptedWhileRenewing(m) =>
                 \E r \in {udpIp4PacketReceived(Enter(0), m)} :
                     LET passed == TicksToSec(0 - m_request_send_time)
                         renewal == LeaseRecordOf(m).renewal_time_s
                     IN  IF passed < m.opts.ip_address_lease_time
                         THEN /\ RenewedWith(r, m)
                              /\ r.m_lease_time_passed =
                                    MaxValue(passed,
                                             MinValue(renewal, passed + MaxTimerSeconds))
                              /\ r.timer_time = m_request_send_time
                                    + SecToTicksNoAssert(r.m_lease_time_passed)
                         ELSE /\ r.m_state = "Selecting"
                              /\ r.iface_addr = NoAddr
                              /\ r.iface_gw = NoGateway
                              /\ ReportedIn(r.effects) =
                                    IF m_handler THEN <<"LeaseLost">> ELSE << >>
                              /\ SendsOne(r.effects, "Discover")
                              /\ ~r.assert_failed

\* Witness of C23: in REBINDING, a second or more after the latest REQUEST,
\* the other server's ACK of another address arrives and the client is
\* bound to that address, with LeaseRenewed reported.
ReboundToOtherAddress ==
    /\ Running
    /\ m_state = "Rebinding"
    /\ m_handler
    /\ TicksToSec(0 - m_request_send_time) >= 1
    /\ \E m \in RenewalAcks :
          /\ m.yiaddr # m_info.ip_address
          /\ m.opts.dhcp_server_identifier # m_info.dhcp_server_identifier
          /\ AcceptedWhileRenewing(m)
          /\ RenewedWith(udpIp4PacketReceived(Enter(0), m), m)

\* ------------------------------------------------------------------------
\* C24.  The retransmission interval in RENEWING and REBINDING.
\* ------------------------------------------------------------------------
\* time_to_next_state of the client r, which has just sent a timer-driven
\* REQUEST: from the lease time elapsed at the send to the rebinding time in
\* RENEWING, to the end of the lease in REBINDING.
TimeToNextState(r) ==
    (IF r.m_state = "Renewing" THEN r.m_info.rebinding_time_s
     ELSE r.m_info.lease_time_s) - r.m_request_send_time_passed

\* The timer handler, entered d ticks late in a lease state, sends a REQUEST
\* and sets the timer rel(r) seconds of lease time after the send: that much
\* is added to the elapsed time, and the timer is set that much after the
\* previous expiry time plus the seconds measured since.
RequestThenTimerAfter(d, rel(_)) ==
    \E r \in {TimerFired(d)} :
        r.m_state \in {"Renewing", "Rebinding"} =>
            /\ SendsOne(r.effects, "Request")
            /\ r.m_request_send_time_passed = ElapsedAtFire(d)
            /\ r.m_lease_time_passed = r.m_request_send_time_passed + rel(r)
            /\ r.timer_set
            /\ r.timer_time = timer_time
                  + SecToTicksNoAssert(r.m_lease_time_passed - m_lease_time_passed)
            /\ ~r.assert_failed

\* max(MinRenewRtxTimeoutSeconds, time_to_next_state / 2)
RenewRtxTimeout(r) == MaxValue(MinRenewRtxTimeoutSeconds, TimeToNextState(r) \div 2)

\* min(time_to_next_state, max(MinRenewRtxTimeoutSeconds,
\* time_to_next_state / 2), MaxTimerSeconds)
RenewTimerInterval(r) ==
    MinValue(MinValue(TimeToNextState(r), RenewRtxTimeout(r)), MaxTimerSeconds)

\* C24 as stated: after each timer-driven REQUEST in RENEWING and REBINDING
\* the timer is set max(MinRenewRtxTimeoutSeconds, time_to_next_state / 2)
\* seconds later.
RetransmitAfterRtxTimeout ==
    (Running /\ timer_set /\ m_state \in {"Bound", "Renewing", "Rebinding"}) =>
        \A d \in 0..MaxLatency : RequestThenTimerAfter(d, RenewRtxTimeout)

\* C24 (amended): after each timer-driven REQUEST in RENEWING and REBINDING
\* the timer is set min(time_to_next_state, max(MinRenewRtxTimeoutSeconds,
\* time_to_next_state / 2), MaxTimerSeconds) seconds later.
RetransmitOrNextStateTimer ==
    (Running /\ timer_set /\ m_state \in {"Bound", "Renewing", "Rebinding"}) =>
        \A d \in 0..MaxLatency : RequestThenTimerAfter(d, RenewTimerInterval)

\* Witness of C24: in REBINDING the timer handler retransmits the REQUEST and
\* sets the timer half the time to the end of the lease later, which is more
\* than MinRenewRtxTimeoutSeconds.
RetransmitAfterHalfTheTime ==
    /\ Running
    /\ timer_set
    /\ m_state = "Rebinding"
    /\ \E r \in {TimerFired(0)} :
          /\ r.m_state = "Rebinding"
          /\ SendsOne(r.effects, "Request")
          /\ r.m_lease_time_passed - r.m_request_send_time_passed
                = TimeToNextState(r) \div 2
          /\ TimeToNextState(r) \div 2 > MinRenewRtxTimeoutSeconds

\* ------------------------------------------------------------------------
\* C25.  The lease timer is anchored to the request that produced the lease.
\* ------------------------------------------------------------------------
LeaseStates == {"Bound", "Renewing", "Rebinding"}

\* The absolute time the timer of the client r is set for, less the elapsed
\* lease time it stands for: the anchor of the lease clock.
LeaseAnchor(r) == r.timer_time - SecToTicksNoAssert(r.m_lease_time_passed)

\* time_to_next_event of the client r after a timer fire, counted from the
\* lease time elapsed at the fire: to the renewal time in BOUND, to the next
\* retransmission or state in RENEWING and REBINDING.
TimeToNextEvent(r, elapsed) ==
    IF r.m_state = "Bound" THEN r.m_info.renewal_time_s - elapsed
    ELSE MinValue(TimeToNextState(r), RenewRtxTimeout(r))

\* The handler that left the client as r has made it BOUND.
BoundIn(r) == \E i \in DOMAIN r.effects : r.effects[i].op = "state" /\ r.effects[i].to = "Bound"

\* A handler that leaves the client as r, holding the lease it held before,
\* has not touched the lease timer.
LeaseTimerKept(r) ==
    (r.m_state \in LeaseStates /\ ~BoundIn(r)) =>
        /\ r.timer_set
        /\ r.timer_time = timer_time
        /\ r.m_lease_time_passed = m_lease_time_passed

\* C25: whenever a handler makes the client BOUND, the timer is set at the
\* send time of the request that produced the lease (m_request_send_time)
\* plus m_lease_time_passed seconds.  Every timer fire in BOUND, RENEWING or
\* REBINDING that does not end the lease adds to m_lease_time_passed the whole
\* seconds measured since the expiry time the timer was set for and a next
\* interval of min(time_to_next_event, MaxTimerSeconds), and sets the timer at
\* that expiry time plus the sum, whatever the latency of the handler: the
\* anchor stays where it was.  No other handler changes the timer or
\* m_lease_time_passed while the lease is held.
LeaseTimerAnchored ==
    Running =>
        /\ \A m \in RenewalReplies :
             \E r \in {udpIp4PacketReceived(Enter(0), m)} :
                 /\ BoundIn(r) =>
                      /\ m_state \in {"Rebooting", "Renewing", "Rebinding"}
                      /\ r.timer_set
                      /\ LeaseAnchor(r) = m_request_send_time
                 /\ m_state \in LeaseStates => LeaseTimerKept(r)
        /\ m_state \in LeaseStates =>
             LeaseTimerKept(retrySending([Enter(0) EXCEPT !.retry_pending = FALSE]))
        /\ (timer_set /\ m_state = "Checking") =>
             \A d \in 0..MaxLatency :
                 \E r \in {TimerFired(d)} :
                     BoundIn(r) => r.timer_set /\ LeaseAnchor(r) = m_request_send_time
        /\ (timer_set /\ m_state \in LeaseStates) =>
             \A d \in 0..MaxLatency :
                 \E r \in {TimerFired(d)} :
                     r.m_state \in LeaseStates =>
                         /\ r.timer_set
                         /\ r.m_lease_time_passed =
                               ElapsedAtFire(d)
                               + MinValue(TimeToNextEvent(r, ElapsedAtFire(d)),
                                          MaxTimerSeconds)
                         /\ r.timer_time = timer_time + SecToTicksNoAssert(
                               r.m_lease_time_passed - m_lease_time_passed)
                         /\ LeaseAnchor(r) = LeaseAnchor(Cur)
                         /\ ~r.assert_failed

\* Witness of C25: the timer fires in BOUND, MaxLatency ticks late, more than
\* MaxTimerSeconds before the renewal time; the handler sets it MaxTimerSeconds
\* after the previous expiry time, which is less than that after the fire.
LateFireKeepsAnchor ==
    /\ Running
    /\ timer_set
    /\ m_state = "Bound"
    /\ MaxLatency > 0
    /\ \E r \in {TimerFired(MaxLatency)} :
          /\ r.m_state = "Bound"
          /\ r.m_lease_time_passed = m_lease_time_passed + MaxTimerSeconds
          /\ r.timer_time = timer_time + SecToTicksNoAssert(MaxTimerSeconds)
          /\ r.timer_time - r.now < SecToTicksNoAssert(MaxTimerSeconds)

\* ------------------------------------------------------------------------
\* C26.  Addresses of outbound messages.
\* ------------------------------------------------------------------------
\* C26: every DHCP message the latest handler sent is a DECLINE or was sent in
\* SELECTING, REQUESTING, REBOOTING, RENEWING or REBINDING.  Its destination
\* is the stored server address when it is a REQUEST sent in RENEWING and
\* 255.255.255.255 otherwise; its ciaddr and IP source are the leased address
\* (which is not zero) when it is a REQUEST sent in RENEWING or REBINDING and
\* 0.0.0.0 otherwise; sending from a non-local source is allowed exactly when
\* ciaddr is 0.0.0.0.
OutboundAddressing ==
    \A i \in DOMAIN effects :
        effects[i].op = "send" =>
            LET e == effects[i]
                decline == e.type = "Decline"
            IN  /\ decline \/ e.in_state \in {"Selecting", "Requesting", "Rebooting",
                                              "Renewing", "Rebinding"}
                /\ decline => e.in_state = "Checking"
                /\ ~decline => m_state = e.in_state
                /\ e.dst_addr = IF ~decline /\ e.in_state = "Renewing"
                                THEN m_info.dhcp_server_addr ELSE AllOnesAddr
                /\ e.ciaddr = IF ~decline /\ e.in_state \in {"Renewing", "Rebinding"}
                              THEN m_info.ip_address ELSE ZeroAddr
                /\ (~decline /\ e.in_state \in {"Renewing", "Rebinding"})
                      => (e.ciaddr # ZeroAddr /\ e.ciaddr = iface_addr.addr)
                /\ e.src_addr = e.ciaddr
                /\ e.allow_nonlocal_src <=> (e.ciaddr = ZeroAddr)

\* Witness of C26: a REQUEST has been sent in RENEWING, to the server's
\* address, from the leased address.
UnicastRequestWhileRenewing ==
    /\ Running
    /\ m_state = "Renewing"
    /\ \E i \in DOMAIN effects :
          /\ effects[i].op = "send"
          /\ effects[i].type = "Request"
          /\ effects[i].dst_addr = m_info.dhcp_server_addr
          /\ effects[i].dst_addr # AllOnesAddr
          /\ effects[i].ciaddr = m_info.ip_address
          /\ ~effects[i].allow_nonlocal_src

\* ------------------------------------------------------------------------
\* Fourth specification: configured identifiers.  The client constructed with
\* or without a client identifier and a vendor class identifier, the link up,
\* one server; the handlers that send.
\* ------------------------------------------------------------------------
ConfiguredOptions ==
    {[client_id |-> c, vendor_class_id |-> v, request_ip_address |-> a] :
        c \in BOOLEAN, v \in BOOLEAN, a \in {ZeroAddr, AddrA}}

ConfiguredInit ==
    \E opts \in ConfiguredOptions :
        \E s \in SendOutcomes(IpDhcpClient(opts, TRUE, TRUE)) :
            /\ Holds(s)
            /\ link_up = TRUE
            /\ alive = TRUE
            /\ idle = 0
            /\ ListenersConstructed

\* A reply of the one server arrives.
ReceiveConfigured ==
    /\ Running
    /\ \E msg \in UnrenewedReplies :
         \E r \in {udpIp4PacketReceived(Enter(0), msg)} :
             /\ \E s \in SendOutcomes(r) : Commit(s)
             /\ idle' = IdleAfter(r)
    /\ UNCHANGED <<link_up, alive>>
    /\ UNCHANGED tcp_vars

ConfiguredNext ==
    \/ TimerFire
    \/ ReceiveConfigured
    \/ ArpInfo
    \/ Retry
    \/ TimePasses

ConfiguredSpec == ConfiguredInit /\ [][ConfiguredNext]_vars

\* ------------------------------------------------------------------------
\* C27.  Options of outbound messages.
\* ------------------------------------------------------------------------
\* C27: of every DHCP message the latest handler sent, the parameter request
\* list and the maximum message size are present exactly when it is not a
\* DECLINE; the requested IP address is present when it was sent in
\* REQUESTING or REBOOTING (and in a DECLINE, and in no other message); the
\* server identifier is present exactly in a REQUEST sent in REQUESTING and
\* in a DECLINE; the message text is present exactly in a DECLINE; the client
\* identifier is present exactly when one is configured, and the vendor class
\* identifier exactly when one is configured and the message is not a DECLINE.
OutboundOptions ==
    \A i \in DOMAIN effects :
        effects[i].op = "send" =>
            LET e == effects[i]
                have == e.opts.have
                decline == e.type = "Decline"
                requesting == e.type = "Request" /\ e.in_state = "Requesting"
            IN  /\ ("parameter_request_list" \in have) <=> ~decline
                /\ ("max_dhcp_message_size" \in have) <=> ~decline
                /\ e.in_state \in {"Requesting", "Rebooting"}
                      => /\ "requested_ip_address" \in have
                         /\ e.opts.requested_ip_address = m_info.ip_address
                /\ ("requested_ip_address" \in have)
                      <=> (decline \/ e.in_state \in {"Requesting", "Rebooting"})
                /\ ("dhcp_server_identifier" \in have) <=> (decline \/ requesting)
                /\ requesting
                      => e.opts.dhcp_server_identifier = m_info.dhcp_server_identifier
                /\ ("message" \in have) <=> decline
                /\ ("client_identifier" \in have) <=> m_client_id
                /\ ("vendor_class_identifier" \in have)
                      <=> (m_vendor_class_id /\ ~decline)

\* Witness of C27: a client with both identifiers configured has sent a
\* DECLINE, which carries the client identifier, the server identifier, the
\* requested address and the message text and nothing else.
DeclineWithClientIdentifier ==
    /\ Running
    /\ m_client_id
    /\ m_vendor_class_id
    /\ \E i \in DOMAIN effects :
          /\ effects[i].op = "send"
          /\ effects[i].type = "Decline"
          /\ effects[i].opts.have = {"client_identifier", "dhcp_server_identifier",
                                     "requested_ip_address", "message"}

\* ------------------------------------------------------------------------
\* C28.  The send-retry callback.
\* ------------------------------------------------------------------------
\* The client as the send-retry callback finds it (the transport has removed
\* the registration).
RetryEntered == [Enter(0) EXCEPT !.retry_pending = FALSE]

\* C28: the send-retry callback sends one DISCOVER in SELECTING and one REQUEST
\* in REQUESTING, RENEWING, REBINDING and REBOOTING, with the current XID, and
\* does nothing at all in LINK_DOWN, RESETTING, CHECKING and BOUND; it never
\* changes the state, the XID, the request count, the retransmission timeout,
\* the request send time, the elapsed times or the timer, and it ends with no
\* registration pending.  Every datagram any handler sends is sent right after
\* the retry registration was reset.
RetryResendsAndKeepsState ==
    /\ Running =>
         \E r \in {retrySending(RetryEntered)} :
             /\ IF m_state = "Selecting" THEN SendsOne(r.effects, "Discover")
                ELSE IF m_state \in {"Requesting", "Renewing", "Rebinding", "Rebooting"}
                THEN SendsOne(r.effects, "Request")
                ELSE r = RetryEntered
             /\ Sent(r) => /\ Sends(r.effects)[1].xid = m_xid
                           /\ Sends(r.effects)[1].in_state = m_state
             /\ \A i \in DOMAIN r.effects : r.effects[i].op \in {"retry_reset", "send"}
             /\ [r EXCEPT !.effects = << >>] = RetryEntered
             /\ r.m_state = m_state
             /\ r.m_xid = m_xid
             /\ r.m_request_count = m_request_count
             /\ r.m_rtx_timeout = m_rtx_timeout
             /\ r.m_request_send_time = m_request_send_time
             /\ r.timer_set = timer_set
             /\ r.timer_time = timer_time
             /\ ~r.retry_pending
    /\ \A i \in DOMAIN effects :
         effects[i].op = "send" => (i > 1 /\ effects[i - 1].op = "retry_reset")

\* Witness of C28: in RENEWING with a retry registration pending, the callback
\* sends the REQUEST again.
RetryWhileRenewing ==
    /\ Running
    /\ retry_pending
    /\ m_state = "Renewing"
    /\ SendsOne(retrySending(RetryEntered).effects, "Request")

\* ------------------------------------------------------------------------
\* C29.  ACKs and OFFERs that are dropped.
\* ------------------------------------------------------------------------
\* Addresses that fail the sanity check of an offered address: all zeros, all
\* ones, loopback, multicast.
InsaneAddrs ==
    {ZeroAddr, AllOnesAddr, Ip4Addr(127, 0, 0, 1), Ip4Addr(127, 255, 255, 254),
     Ip4Addr(224, 0, 0, 1), Ip4Addr(239, 255, 255, 255)}

\* The ways the ACK m, well-formed and of the client's transaction, can be
\* made unacceptable.
UnacceptableAcks(m) ==
    {[m EXCEPT !.yiaddr = a] : a \in InsaneAddrs}
    \cup {[m EXCEPT !.opts.have = @ \ {"ip_address_lease_time"}]}
    \cup {[m EXCEPT !.opts.subnet_mask = mask] :
            mask \in {Ip4Addr(255, 0, 255, 0), Ip4Addr(0, 255, 255, 255),
                      Ip4Addr(255, 255, 255, 253)}}
    \cup {[m EXCEPT !.opts.have = @ \ {"subnet_mask"}, !.yiaddr = a] :
            a \in {Ip4Addr(240, 0, 0, 1), Ip4Addr(255, 255, 255, 254)}}
    \cup {[m EXCEPT !.yiaddr = Ip4Addr(192, 0, 2, 255)],
          [m EXCEPT !.opts.subnet_mask = Ip4Addr(255, 255, 255, 254), !.yiaddr = AddrB],
          [m EXCEPT !.opts.have = @ \ {"subnet_mask"},
                    !.yiaddr = Ip4Addr(10, 255, 255, 255)]}

\* The handler drops the datagram m: the client is as before and nothing was
\* done to any collaborator.
Dropped(m) == udpIp4PacketReceived(Enter(0), m) = Enter(0)

\* C29: in every state an ACK with the client's XID and hardware address is
\* dropped, the client unchanged and nothing sent, when its yiaddr is
\* 0.0.0.0, 255.255.255.255, in 127.0.0.0/8 or in 224.0.0.0/4, when it has
\* no lease time, when its subnet mask is not a prefix mask, when it has no
\* mask and yiaddr >= 224.0.0.0, or when yiaddr is the directed broadcast
\* address of its subnet (with the mask given or the classful one); so is an
\* OFFER whose yiaddr fails the sanity check.
UnacceptableRepliesDropped ==
    Running =>
        /\ \A m \in UnacceptableAcks(BaseReply("Ack")) :
             /\ ~checkAndFixupAck(m.yiaddr, m.opts).ok
             /\ Dropped(m)
        /\ \A a \in InsaneAddrs :
             /\ ~checkOffer(a)
             /\ Dropped([BaseReply("Offer") EXCEPT !.yiaddr = a])

\* Witness of C29: in REBINDING the well-formed ACK is accepted while each of
\* the unacceptable ones is dropped.
UnacceptableAckWhileRebinding ==
    /\ Running
    /\ m_state = "Rebinding"
    /\ ~Dropped(BaseReply("Ack"))
    /\ \A m \in UnacceptableAcks(BaseReply("Ack")) : Dropped(m)

\* ------------------------------------------------------------------------
\* C30.  What the fix-up of an accepted ACK computes.
\* ------------------------------------------------------------------------
\* ACKs of addresses of each class, with and without a subnet mask, with a
\* router inside the subnet, outside it, or none.
AddressedAcks ==
    {[BaseReply("Ack") EXCEPT
        !.yiaddr = a,
        !.opts.have = (@ \ {"subnet_mask", "router"}) \cup h,
        !.opts.subnet_mask = Ip4Addr(255, 255, 255, 128),
        !.opts.router = Ip4Addr(a[1], a[2], a[3], rt)] :
        a \in {Ip4Addr(10, 1, 2, 3), Ip4Addr(127 + 1, 0, 0, 1), Ip4Addr(172, 16, 5, 6),
               Ip4Addr(192, 0, 2, 10), Ip4Addr(223, 255, 255, 1)},
        h \in SUBSET {"subnet_mask", "router"},
        rt \in {100, 200}}

\* ACKs with lease times from zero to 2^31 - 1, with and without renewal
\* and rebinding times below, between and above the bounds they are held to.
\* A time of NoTime stands for an absent option.
NoTime == 0 - 1
TimedAcks ==
    {[BaseReply("Ack") EXCEPT
        !.opts.have = (@ \ {"renewal_time", "rebinding_time"})
                        \cup (IF renewal = NoTime THEN {} ELSE {"renewal_time"})
                        \cup (IF rebinding = NoTime THEN {} ELSE {"rebinding_time"}),
        !.opts.ip_address_lease_time = lease,
        !.opts.renewal_time = MaxValue(0, renewal),
        !.opts.rebinding_time = MaxValue(0, rebinding)] :
        lease \in {0, 7, 9, 90, 1073741824, 2147483647},
        renewal \in {NoTime, 5, 100},
        rebinding \in {NoTime, 0, 6, 2147483647}}

\* floor(lease * 7 / 8), computed without a product that exceeds the lease.
SevenEighths(lease) == 7 * (lease \div 8) + (7 * (lease % 8)) \div 8

\* The lease record the claim gives for the accepted ACK m.
FixedUpLease(m) ==
    LET a == m.yiaddr
        o == m.opts
        lease == o.ip_address_lease_time
        mask == IF "subnet_mask" \in o.have THEN o.subnet_mask
                ELSE IF AddrLess(a, Ip4Addr(128, 0, 0, 0)) THEN PrefixMask(8)
                ELSE IF AddrLess(a, Ip4Addr(192, 0, 0, 0)) THEN PrefixMask(16)
                ELSE PrefixMask(24)
        routed == "router" \in o.have /\ AddrAnd(o.router, mask) = AddrAnd(a, mask)
        renewal == MinValue(lease, IF "renewal_time" \in o.have THEN o.renewal_time
                                   ELSE lease \div 2)
        rebinding == MaxValue(renewal,
                         MinValue(lease, IF "rebinding_time" \in o.have
                                         THEN o.rebinding_time
                                         ELSE SevenEighths(lease)))
    IN  [subnet_mask |-> mask, have_router |-> routed,
         router |-> IF routed THEN o.router ELSE ZeroAddr,
         lease_time_s |-> lease, renewal_time_s |-> renewal,
         rebinding_time_s |-> rebinding]

\* C30: in REBOOTING, RENEWING and REBINDING every ACK of AddressedAcks and
\* TimedAcks is accepted, and the lease record then holds: the given subnet
\* mask, or /8, /16, /24 by the class of yiaddr when none is given; the
\* given router when it lies in yiaddr's subnet and no router otherwise;
\* renewal = min(lease, given renewal or floor(lease / 2)); rebinding =
\* max(renewal, min(lease, given rebinding or floor(lease * 7 / 8))).  The
\* product lease * 7 is formed in 64 bits: for the leases 2^31 and 2^32 - 1
\* the default rebinding time is 7 * 2^28 and 7 * 2^29 - 1.
FixupComputesLeaseTimes ==
    /\ (Running /\ m_state \in {"Rebooting", "Renewing", "Rebinding"}) =>
         \A m \in AddressedAcks \cup TimedAcks :
             \E r \in {udpIp4PacketReceived(Enter(0), m)} :
                 /\ r # Enter(0)
                 /\ ~r.assert_failed
                 /\ [f \in DOMAIN FixedUpLease(m) |-> r.m_info[f]] = FixedUpLease(m)
                 /\ r.m_info.dhcp_server_identifier = m.opts.dhcp_server_identifier
    /\ Uint64Mul7Div8(<<0, 32768>>) = <<0, 28672>>
    /\ Uint64Mul7Div8(<<65535, 65535>>) = <<65535, 57343>>

\* Witness of C30: in RENEWING an ACK with a lease of 2^30 seconds and no
\* rebinding time, whose router is outside its subnet, is accepted: the
\* rebinding time is 7 * 2^27 and there is no router.
LongLeaseFixedUp ==
    /\ Running
    /\ m_state = "Renewing"
    /\ \E m \in TimedAcks :
          /\ m.opts.ip_address_lease_time = 1073741824
          /\ "rebinding_time" \notin m.opts.have
          /\ \E r \in {udpIp4PacketReceived(
                          Enter(0), [m EXCEPT !.opts.router = Ip4Addr(10, 0, 0, 1)])} :
                /\ r.m_state = "Bound"
                /\ r.m_info.rebinding_time_s = 939524096
                /\ ~r.m_info.have_router

\* ------------------------------------------------------------------------
\* C31.  An ACK in REQUESTING.
\* ------------------------------------------------------------------------
\* Otherwise valid ACKs of the client's transaction: either address, from
\* either server, with each of AckTimes.
RequestingAcks ==
    {Reply("Ack", id, ServerAddrA, yiaddr, times) :
        id \in {ServerIdA, ServerIdB}, yiaddr \in {AddrA, AddrB}, times \in AckTimes}

\* The ACK m names the address and the server stored from the OFFER.
MatchesOffer(m) ==
    /\ m.yiaddr = m_info.ip_address
    /\ m.opts.dhcp_server_identifier = m_info.dhcp_server_identifier

\* C31: in REQUESTING an otherwise valid ACK whose yiaddr or server
\* identifier differs from the one stored from the OFFER returns the client
\* exactly as it was, with nothing done.  One that matches in both stores
\* the lease record and enters CHECKING: the ARP observer is subscribed, the
\* ARP query count is 1, one ARP query for the address is sent and the timer
\* is armed ArpResponseTimeoutSeconds ahead; the interface's address and
\* gateway are not touched, nothing is sent and no event is reported.
AckInRequestingChecksAddress ==
    (Running /\ m_state = "Requesting") =>
        \A m \in RequestingAcks :
            \E r \in {udpIp4PacketReceived(Enter(0), m)} :
                IF MatchesOffer(m)
                THEN /\ r.m_state = "Checking"
                     /\ StatesIn(r.effects) = <<"Checking">>
                     /\ r.m_info = LeaseRecordOf(m)
                     /\ r.arp_observing /\ ~arp_observing
                     /\ r.m_request_count = 1
                     /\ SelectSeq(r.effects, LAMBDA e : e.op = "arp_query")
                            = <<[op |-> "arp_query", ip |-> m.yiaddr]>>
                     /\ r.timer_set
                     /\ r.timer_time = SecToTicksNoAssert(ArpResponseTimeoutSeconds)
                     /\ r.iface_addr = iface_addr /\ iface_addr = NoAddr
                     /\ r.iface_gw = iface_gw /\ iface_gw = NoGateway
                     /\ \A i \in DOMAIN r.effects :
                            r.effects[i].op \notin
                                {"set_addr", "set_gateway", "callback", "send"}
                     /\ ~r.assert_failed
                ELSE r = Enter(0)

\* Witness of C31: the client is in CHECKING, having just accepted in
\* REQUESTING the ACK of server B for the address B offered; no address is
\* assigned.
CheckingAfterAckOfOffer ==
    /\ Running
    /\ m_state = "Checking"
    /\ Entered("Checking")
    /\ Did("arp_observe")
    /\ m_info.ip_address = AddrB
    /\ m_info.dhcp_server_identifier = ServerIdB
    /\ iface_addr = NoAddr
    /\ Reported = << >>

\* ------------------------------------------------------------------------
\* C32.  The final ARP timeout in CHECKING.
\* ------------------------------------------------------------------------
\* The timer is armed in CHECKING and all ARP queries have been sent: its
\* expiry is the final ARP timeout.
FinalArpTimeoutDue ==
    Running /\ timer_set /\ m_state = "Checking" /\ m_request_count >= NumArpQueries

\* Whole seconds from the time of m_request_send_time to the fire that ends
\* as r.
SecondsSinceRequest(r) == TicksToSec(r.now - m_request_send_time)

\* The fire has left r in BOUND with the address, prefix and gateway of the
\* lease record installed and LeaseObtained reported (to a client that has a
\* handler).
BoundWithLeaseObtained(r) ==
    /\ r.m_state = "Bound"
    /\ StatesIn(r.effects) = <<"Bound">>
    /\ ~r.arp_observing
    /\ r.m_info = m_info
    /\ r.iface_addr = [present |-> TRUE,
                       prefix |-> countLeadingOnes(m_info.subnet_mask),
                       addr |-> m_info.ip_address]
    /\ r.iface_gw = IF m_info.have_router
                    THEN [present |-> TRUE, addr |-> m_info.router]
                    ELSE NoGateway
    /\ ReportedIn(r.effects) = IF m_handler THEN <<"LeaseObtained">> ELSE << >>
    /\ r.timer_set
    /\ ~r.assert_failed

\* m_request_send_time is the send time of the first REQUEST of the
\* REQUESTING phase: the handler that enters REQUESTING sends a REQUEST and
\* sets it to the current time, and no retransmission, send retry, ACK or
\* ARP timeout of REQUESTING and CHECKING changes it.
SendTimeIsFirstRequest ==
    /\ (Running /\ m_state = "Requesting" /\ Entered("Requesting")) =>
          /\ m_request_send_time = 0
          /\ SendsOne(effects, "Request")
    /\ (Running /\ m_state = "Requesting") =>
          /\ \A d \in 0..MaxLatency :
                timer_set =>
                    \E r \in {TimerFired(d)} :
                        r.m_state = "Requesting" =>
                            /\ SendsOne(r.effects, "Request")
                            /\ r.m_request_send_time = m_request_send_time
          /\ retrySending(RetryEntered).m_request_send_time = m_request_send_time
          /\ \A m \in RequestingAcks :
                udpIp4PacketReceived(Enter(0), m).m_request_send_time
                    = m_request_send_time
    /\ (Running /\ m_state = "Checking" /\ timer_set) =>
          \A d \in 0..MaxLatency :
              TimerFired(d).m_request_send_time = m_request_send_time

\* C32 as stated: the final ARP timeout gives BOUND with the lease installed
\* and LeaseObtained reported, the timer armed for the renewal time after the
\* send time of the first REQUEST.
FinalArpTimeoutBinds ==
    /\ SendTimeIsFirstRequest
    /\ FinalArpTimeoutDue =>
          \A d \in 0..MaxLatency :
              \E r \in {TimerFired(d)} :
                  /\ BoundWithLeaseObtained(r)
                  /\ r.timer_time = m_request_send_time
                                    + SecToTicksNoAssert(m_info.renewal_time_s)

\* C32 (amended): at the final ARP timeout, with e the whole seconds passed
\* since the send time of the first REQUEST of the REQUESTING phase: if
\* e >= lease time the client enters SELECTING and sends a DISCOVER, with
\* nothing installed and nothing reported; otherwise it enters BOUND,
\* installs address, prefix and gateway of the lease record, reports
\* LeaseObtained, and arms the timer, measured from that send time, for the
\* renewal time, but no later than e + MaxTimerSeconds and no earlier than e.
FinalArpTimeoutBindsUnexpired ==
    /\ SendTimeIsFirstRequest
    /\ FinalArpTimeoutDue =>
          \A d \in 0..MaxLatency :
              \E r \in {TimerFired(d)} :
                  LET e == SecondsSinceRequest(r)
                  IN  IF e >= m_info.lease_time_s
                      THEN /\ r.m_state = "Selecting"
                           /\ StatesIn(r.effects) = <<"Selecting">>
                           /\ SendsOne(r.effects, "Discover")
                           /\ ~r.arp_observing
                           /\ r.iface_addr = NoAddr
                           /\ r.iface_gw = NoGateway
                           /\ ReportedIn(r.effects) = << >>
                           /\ ~r.assert_failed
                      ELSE /\ BoundWithLeaseObtained(r)
                           /\ r.timer_time =
                                m_request_send_time
                                + SecToTicksNoAssert(
                                    MaxValue(e, MinValue(m_info.renewal_time_s,
                                                         e + MaxTimerSeconds)))

\* Witness of C32: the final ARP timeout is due after a retransmission in
\* REQUESTING, and its fire binds the lease with the timer armed for the
\* renewal time after the first REQUEST.
BoundAtRenewalFromFirstRequest ==
    /\ FinalArpTimeoutDue
    /\ m_handler
    /\ \E d \in 0..MaxLatency :
          \E r \in {TimerFired(d)} :
              /\ SecondsSinceRequest(r)
                    >= BaseRtxTimeoutSeconds + NumArpQueries * ArpResponseTimeoutSeconds
              /\ BoundWithLeaseObtained(r)
              /\ r.timer_time = m_request_send_time
                                + SecToTicksNoAssert(m_info.renewal_time_s)
              /\ r.timer_time > r.now

\* ------------------------------------------------------------------------
\* C33.  The states in which each type of message is acted upon.
\* ------------------------------------------------------------------------
\* Well-formed replies of the client's transaction: each type, from either
\* server, for either address.
TypedReplies ==
    {Reply(type, id, ServerAddrA, yiaddr, PlainTimes) :
        type \in {"Offer", "Ack", "Nak"}, id \in {ServerIdA, ServerIdB},
        yiaddr \in {AddrA, AddrB}}

\* The reply m without a message type, with a message type that is not a
\* server's reply, and without a server identifier.
Untyped(m) ==
    {[m EXCEPT !.opts.have = @ \ {"dhcp_message_type"}],
     [m EXCEPT !.opts.have = @ \ {"dhcp_server_identifier"}]}
    \cup {[m EXCEPT !.opts.dhcp_message_type = t] :
            t \in {"Discover", "Request", "Decline", "Release", "Inform"}}

\* The states in which a reply of the given type is acted upon.
ActedUponIn(type) ==
    IF type = "Offer" THEN {"Selecting"}
    ELSE {"Requesting", "Renewing", "Rebinding", "Rebooting"}

\* C33: a well-formed OFFER outside SELECTING, a well-formed ACK or NAK
\* outside REQUESTING, RENEWING, REBINDING and REBOOTING (so every reply in
\* LINK_DOWN, RESETTING, CHECKING and BOUND, and every ACK or NAK in
\* SELECTING), and in every state a reply without a message type, with a
\* type other than OFFER, ACK and NAK, or without a server identifier,
\* returns the client exactly as it was: no state change, no send, no
\* callback, nothing done.
RepliesActedUponByState ==
    Running =>
        \A m \in TypedReplies :
            /\ m_state \notin ActedUponIn(m.opts.dhcp_message_type)
                  => udpIp4PacketReceived(Enter(0), m) = Enter(0)
            /\ \A u \in Untyped(m) : udpIp4PacketReceived(Enter(0), u) = Enter(0)

\* Witness of C33: in REQUESTING the OFFER of the server whose offer was
\* taken is dropped, while its ACK and its NAK are acted upon.
OfferDroppedWhileRequesting ==
    /\ Running
    /\ m_state = "Requesting"
    /\ \E o \in TypedReplies :
          /\ o.opts.dhcp_message_type = "Offer"
          /\ MatchesOffer(o)
          /\ udpIp4PacketReceived(Enter(0), o) = Enter(0)
          /\ udpIp4PacketReceived(
                 Enter(0), [o EXCEPT !.opts.dhcp_message_type = "Ack"]).m_state
                 = "Checking"
          /\ udpIp4PacketReceived(
                 Enter(0), [o EXCEPT !.opts.dhcp_message_type = "Nak"]).m_state
                 = "Resetting"

\* ------------------------------------------------------------------------
\* C34.  The OFFER taken in SELECTING, and where the XID is regenerated.
\* ------------------------------------------------------------------------
\* The handler that has left the client as r called new_xid.
CalledNewXid(r) == \E i \in DOMAIN r.effects : r.effects[i].op = "new_xid"

\* The handler that has left the client as r is one of those that regenerate
\* the XID: it started discovery or rebooting, entered RENEWING or REBINDING,
\* or is the timer handler of SELECTING that starts a new round of DISCOVERs
\* after XidReuseMax of them.
XidRegeneratingHandler(r, before) ==
    \/ \E st \in {"Selecting", "Rebooting", "Renewing", "Rebinding"} :
          \E i \in DOMAIN r.effects :
              r.effects[i].op = "state" /\ r.effects[i].to = st
    \/ /\ before.m_state = "Selecting"
       /\ before.m_request_count = XidReuseMax
       /\ r.effects[1].op = "timer_expired"
       /\ r.m_state = "Selecting"
       /\ r.m_request_count = 1

\* r, the client after a handler entered as before, has the XID it had unless
\* the handler is one of those that regenerate it, and new_xid was called only
\* in such a handler.
XidKeptUnlessRegenerated(r, before) ==
    /\ r.m_xid # before.m_xid => CalledNewXid(r)
    /\ CalledNewXid(r) => XidRegeneratingHandler(r, before)

\* C34: (1) in SELECTING a DISCOVER just sent carries m_xid, and a valid
\* OFFER with that XID stores the offered address and server identifier,
\* enters REQUESTING and sends one REQUEST with the same XID, the request
\* count 1, the timeout BaseRtxTimeoutSeconds and the timer armed for it;
\* (2) whatever handler runs in whatever state, the XID changes only by
\* new_xid, which is called only when discovery or rebooting starts, when
\* RENEWING or REBINDING is entered, and by the timer handler of SELECTING
\* after XidReuseMax DISCOVERs; (3) in REQUESTING and REBOOTING every
\* retransmission by the timer and every send retry sends one REQUEST with
\* the unchanged XID.
OfferTakenWithItsXid ==
    /\ (Running /\ m_state = "Selecting") =>
          /\ Sends(effects) # << >> =>
                /\ Sends(effects)[Len(Sends(effects))].type = "Discover"
                /\ Sends(effects)[Len(Sends(effects))].xid = m_xid
          /\ \A o \in {m \in TypedReplies : m.opts.dhcp_message_type = "Offer"} :
                \E r \in {udpIp4PacketReceived(Enter(0), o)} :
                    /\ r.m_state = "Requesting"
                    /\ StatesIn(r.effects) = <<"Requesting">>
                    /\ r.m_info.ip_address = o.yiaddr
                    /\ r.m_info.dhcp_server_identifier = o.opts.dhcp_server_identifier
                    /\ SendsOne(r.effects, "Request")
                    /\ Sends(r.effects)[1].xid = o.xid
                    /\ Sends(r.effects)[1].opts.requested_ip_address = o.yiaddr
                    /\ r.m_xid = m_xid
                    /\ ~CalledNewXid(r)
                    /\ r.m_request_count = 1
                    /\ r.m_rtx_timeout = BaseRtxTimeoutSeconds
                    /\ r.timer_set
                    /\ r.timer_time = SecToTicksNoAssert(BaseRtxTimeoutSeconds)
    /\ Running =>
          /\ \A m \in Messages \cup TypedReplies :
                XidKeptUnlessRegenerated(udpIp4PacketReceived(Enter(0), m), Enter(0))
          /\ \A up \in BOOLEAN :
                XidKeptUnlessRegenerated(ifaceStateChanged(Enter(0), up), Enter(0))
          /\ XidKeptUnlessRegenerated(retrySending(RetryEntered), Enter(0))
          /\ timer_set =>
                \A d \in 0..MaxLatency :
                    XidKeptUnlessRegenerated(TimerFired(d), Enter(0))
          /\ m_state = "Checking" =>
                \A ip_addr \in ArpAddrs :
                    XidKeptUnlessRegenerated(arpInfoReceived(Enter(0), ip_addr),
                                             Enter(0))
    /\ (Running /\ m_state \in {"Requesting", "Rebooting"}) =>
          /\ \A d \in 0..MaxLatency :
                timer_set =>
                    \E r \in {TimerFired(d)} :
                        r.m_state = m_state =>
                            /\ SendsOne(r.effects, "Request")
                            /\ Sends(r.effects)[1].xid = m_xid
                            /\ r.m_xid = m_xid
          /\ \E r \in {retrySending(RetryEntered)} :
                /\ SendsOne(r.effects, "Request")
                /\ Sends(r.effects)[1].xid = m_xid
                /\ r.m_xid = m_xid

\* Witness of C34: the client is in REQUESTING with server B's offer stored,
\* after the timer has retransmitted the REQUEST, still with the XID of the
\* DISCOVER, taken when discovery started one tick before the OFFER came.
RequestRetransmittedWithOfferXid ==
    /\ Running
    /\ m_state = "Requesting"
    /\ m_info.ip_address = AddrB
    /\ m_info.dhcp_server_identifier = ServerIdB
    /\ m_request_count = 2
    /\ Did("timer_expired")
    /\ SendsOne(effects, "Request")
    /\ Sends(effects)[1].xid = m_xid
    /\ m_xid = PastXid
    /\ ~Did("new_xid")

\* ------------------------------------------------------------------------
\* C35.  The late-ACK check of RENEWING and REBINDING.
\* ------------------------------------------------------------------------
\* C35: in RENEWING and REBINDING m_lease_time_passed -
\* m_request_send_time_passed lies in 0..MaxTimerSeconds; every timer fire
\* that stays in these states sends one REQUEST and takes the lease time
\* elapsed at the fire and the current time as the request's; so an ACK that
\* checkAndFixupAck accepts is acted upon (its lease is taken as the lease
\* record, and the client goes to BOUND, or to SELECTING when that lease is
\* already over), and no assertion fails.
RequestSnapshotWithinTimerRange ==
    (Running /\ m_state \in {"Renewing", "Rebinding"}) =>
        /\ m_lease_time_passed - m_request_send_time_passed >= 0
        /\ m_lease_time_passed - m_request_send_time_passed <= MaxTimerSeconds
        /\ timer_set
        /\ \A d \in 0..MaxLatency :
              \E r \in {TimerFired(d)} :
                  r.m_state \in {"Renewing", "Rebinding"} =>
                      /\ SendsOne(r.effects, "Request")
                      /\ r.m_request_send_time = r.now
                      /\ r.m_request_send_time_passed = ElapsedAtFire(d)
                      /\ r.m_lease_time_passed - r.m_request_send_time_passed
                            \in 0..MaxTimerSeconds
                      /\ ~r.assert_failed
        /\ \A m \in RenewalAcks :
              checkAndFixupAck(m.yiaddr, m.opts).ok =>
                  \E r \in {udpIp4PacketReceived(Enter(0), m)} :
                      /\ r # Enter(0)
                      /\ StatesIn(r.effects) \in {<<"Bound">>, <<"Selecting">>}
                      /\ [r.m_info EXCEPT !.ip_address = m.yiaddr] = LeaseRecordOf(m)
                      /\ ~r.assert_failed

\* Witness of C35: in RENEWING the timer is armed the full MaxTimerSeconds
\* after the REQUEST, and an ACK is accepted.
AckAcceptedAtTimerRange ==
    /\ Running
    /\ m_state = "Renewing"
    /\ m_lease_time_passed - m_request_send_time_passed = MaxTimerSeconds
    /\ \E m \in RenewalAcks : udpIp4PacketReceived(Enter(0), m).m_state = "Bound"

\* ------------------------------------------------------------------------
\* C36.  The order of the events reported to the handler.
\* ------------------------------------------------------------------------
\* The acceptor of (LeaseObtained LeaseRenewed* (LeaseLost | LinkDown))*: the
\* state after event e in state q, or "reject".
EventStep(q, e) ==
    IF q = "unleased"
    THEN IF e = "LeaseObtained" THEN "leased" ELSE "reject"
    ELSE IF q = "leased"
    THEN IF e = "LeaseRenewed" THEN "leased"
         ELSE IF e \in {"LeaseLost", "LinkDown"} THEN "unleased"
         ELSE "reject"
    ELSE "reject"

\* The acceptor's state after the events es, from state q.
RECURSIVE EventsFrom(_, _)
EventsFrom(q, es) ==
    IF es = << >> THEN q ELSE EventsFrom(EventStep(q, Head(es)), Tail(es))

\* The acceptor's state that goes with holding a lease or not.
LeaseEventState(leased) == IF leased THEN "leased" ELSE "unleased"

\* C36: the events reported so far are a prefix of a word of (LeaseObtained
\* LeaseRenewed* (LeaseLost | LinkDown))*.  For a client with a handler the
\* acceptor is in its state after LeaseObtained exactly while the client holds
\* a lease: construction reports nothing and leaves no lease, and the events
\* every handler reports take the acceptor from the state of hasLease()
\* before the handler to the state of hasLease() after it; destruction
\* reports nothing.  A client without a handler reports nothing.
EventsFollowLease ==
    /\ Reported = << >>
    /\ ~Leased
    /\ [][IF m_handler /\ alive'
          THEN EventsFrom(LeaseEventState(Leased), Reported')
                  = LeaseEventState(Leased')
          ELSE Reported' = << >>]_vars

\* Witness of C36: in REBOOTING the ACK has been accepted and LeaseObtained,
\* the first event, reported.
LeaseObtainedAfterReboot ==
    /\ Running
    /\ m_handler
    /\ m_state = "Bound"
    /\ Entered("Bound")
    /\ ~Did("arp_reset")
    /\ ~Did("timer_expired")
    /\ Reported = <<"LeaseObtained">>
    /\ iface_addr.present

\* ------------------------------------------------------------------------
\* C37.  The assertions.
\* ------------------------------------------------------------------------
\* The states in which a message of the given type may be sent.
SentIn(type) ==
    IF type = "Discover" THEN {"Selecting"}
    ELSE IF type = "Request" THEN {"Requesting", "Renewing", "Rebinding", "Rebooting"}
    ELSE {"Checking"}

\* The handler that has left the client as r failed no assertion, and sent
\* each message in a state of SentIn.
AssertionsHeld(r) ==
    /\ ~r.assert_failed
    /\ \A i \in DOMAIN r.effects :
          r.effects[i].op = "send" =>
              r.effects[i].in_state \in SentIn(r.effects[i].type)

\* C37: no assertion has failed; the timer is not armed in LINK_DOWN (so
\* timerHandler is not called there); the ARP observer is subscribed only in
\* CHECKING (so arpInfoReceived is not called elsewhere); the messages of the
\* latest handler were sent in the states send_discover, send_request and
\* send_decline assert; the retransmission timeout, the one variable interval
\* passed to SecToTicks, is at most MaxTimerSeconds; the lease time elapsed
\* is at most the lease time; and no handler that can run next, with any
\* input, fails an assertion: go_bound is entered only from CHECKING,
\* RENEWING, REBINDING and REBOOTING.
NoAssertionFails ==
    /\ ~assert_failed
    /\ AssertionsHeld(Cur)
    /\ m_state = "LinkDown" => ~timer_set
    /\ arp_observing => m_state = "Checking"
    /\ m_rtx_timeout <= MaxTimerSeconds
    /\ hasLease(Cur) => m_lease_time_passed <= m_info.lease_time_s
    /\ Running =>
          /\ timer_set =>
                \A d \in 0..MaxLatency :
                    \E r \in {TimerFired(d)} :
                        /\ AssertionsHeld(r)
                        /\ (r.m_state = "Bound" /\ m_state # "Bound") =>
                              m_state \in {"Checking", "Renewing", "Rebinding"}
          /\ \A m \in Messages \cup TypedReplies \cup RequestingAcks \cup RenewalAcks :
                \E r \in {udpIp4PacketReceived(Enter(0), m)} :
                    /\ AssertionsHeld(r)
                    /\ (r.m_state = "Bound" /\ m_state # "Bound") =>
                          m_state \in {"Renewing", "Rebinding", "Rebooting"}
          /\ \A up \in BOOLEAN : AssertionsHeld(ifaceStateChanged(Enter(0), up))
          /\ AssertionsHeld(retrySending(RetryEntered))
          /\ arp_observing =>
                \A ip_addr \in ArpAddrs :
                    AssertionsHeld(arpInfoReceived(Enter(0), ip_addr))

\* Witness of C37: the timer has fired in RENEWING and the handler has sent
\* another REQUEST there and armed the timer again, every assertion holding.
RenewingRequestResent ==
    /\ Running
    /\ m_state = "Renewing"
    /\ ~Entered("Renewing")
    /\ Did("timer_expired")
    /\ SendsOne(effects, "Request")
    /\ Sends(effects)[1].in_state = "Renewing"
    /\ timer_set
    /\ m_lease_time_passed <= m_info.lease_time_s

\* ------------------------------------------------------------------------
\* C38.  Pending send-retry registrations.
\* ------------------------------------------------------------------------
\* The states in which retrySending sends.
RetryStates == {"Selecting", "Requesting", "Renewing", "Rebinding", "Rebooting"}

\* The registration pending in state st, a state of RetryStates, after a
\* handler with effects e is of a transmit attempt made in st: either the
\* handler's last transmit attempt was made in st, or the handler made none,
\* and was entered in st with the registration pending.
RegisteredIn(st, e, was_pending, was_state) ==
    IF Sends(e) # << >>
    THEN Sends(e)[Len(Sends(e))].in_state = st
    ELSE was_pending /\ was_state = st

\* C38: a registration pending in SELECTING, REQUESTING, RENEWING, REBINDING
\* or REBOOTING is of a transmit attempt made in that state with no other
\* state in between: it holds after construction and every handler keeps it.
\* None is pending in LINK_DOWN, and in RESETTING, CHECKING and BOUND, where
\* one may be left over, the retry callback does nothing.
RetryRegisteredInState ==
    /\ (retry_pending /\ m_state \in RetryStates) =>
          RegisteredIn(m_state, effects, FALSE, m_state)
    /\ [][(retry_pending' /\ m_state' \in RetryStates) =>
             RegisteredIn(m_state', effects', retry_pending, m_state)]_vars
    /\ [](m_state = "LinkDown" => ~retry_pending)
    /\ []((Running /\ m_state \notin RetryStates) =>
             retrySending(RetryEntered) = RetryEntered)
    /\ []((Running /\ m_state \in RetryStates) =>
             \E r \in {retrySending(RetryEntered)} :
                 /\ Len(Sends(r.effects)) = 1
                 /\ Sends(r.effects)[1].in_state = m_state
                 /\ r.m_state = m_state)

\* Witness of C38: the REQUEST of REBOOTING waits for a retry when its ACK
\* takes the client to BOUND; the registration is left pending there.
RetryLeftOverInBound ==
    /\ Running
    /\ m_state = "Bound"
    /\ Entered("Bound")
    /\ ~Did("send")
    /\ ~Did("timer_expired")
    /\ retry_pending
    /\ retrySending(RetryEntered) = RetryEntered

\* ------------------------------------------------------------------------
\* C39.  The remembered address across a loss of the link.
\* ------------------------------------------------------------------------
\* The client after the link has gone down and the change has been handled.
LinkLost == ifaceStateChanged(Enter(0), FALSE)

\* The client after the link has then come up again, one tick later.
LinkBack == ifaceStateChanged([LinkLost EXCEPT !.now = 1, !.effects = << >>], TRUE)

\* C39: SELECTING implies that m_info.ip_address is zero, REBOOTING that it
\* is not.  When the link goes down in RESETTING, SELECTING, REQUESTING or
\* CHECKING the address is zero afterwards, and the next link up enters
\* SELECTING and sends a DISCOVER; when it goes down in REBOOTING, BOUND,
\* RENEWING or REBINDING the address is kept, and the next link up enters
\* REBOOTING and sends a REQUEST for it.
AddressRememberedOnlyIfHeld ==
    /\ m_state = "Selecting" => m_info.ip_address = ZeroAddr
    /\ m_state = "Rebooting" => m_info.ip_address # ZeroAddr
    /\ (Running /\ m_state \in {"Resetting", "Selecting", "Requesting", "Checking"}) =>
          /\ LinkLost.m_state = "LinkDown"
          /\ LinkLost.m_info.ip_address = ZeroAddr
          /\ LinkBack.m_state = "Selecting"
          /\ SendsOne(LinkBack.effects, "Discover")
          /\ LinkBack.m_info.ip_address = ZeroAddr
    /\ (Running /\ m_state \in {"Rebooting", "Bound", "Renewing", "Rebinding"}) =>
          /\ LinkLost.m_state = "LinkDown"
          /\ m_info.ip_address # ZeroAddr
          /\ LinkLost.m_info.ip_address = m_info.ip_address
          /\ LinkBack.m_state = "Rebooting"
          /\ SendsOne(LinkBack.effects, "Request")
          /\ Sends(LinkBack.effects)[1].opts.requested_ip_address = m_info.ip_address
          /\ "requested_ip_address" \in Sends(LinkBack.effects)[1].opts.have
          /\ LinkBack.m_info.ip_address = m_info.ip_address

\* Witness of C39: in CHECKING, with an address acknowledged, the link goes
\* down and comes up again: the address is forgotten and the client is in
\* SELECTING.
AcknowledgedAddressForgotten ==
    /\ Running
    /\ m_state = "Checking"
    /\ m_info.ip_address = AddrA
    /\ m_info.lease_time_s > 0
    /\ LinkLost.m_info.ip_address = ZeroAddr
    /\ LinkBack.m_state = "Selecting"

\* ------------------------------------------------------------------------
\* Specification with a timer that is dispatched: the client with one
\* server, where the event loop calls the timer's handler once the timer has
\* expired.
\* ------------------------------------------------------------------------
\* A reply of the server arrives on the DHCP client port.
ReceiveReply ==
    /\ Running
    /\ \E msg \in UnrenewedReplies :
         \E r \in {udpIp4PacketReceived(Enter(0), msg)} :
             /\ \E s \in SendOutcomes(r) : Commit(s)
             /\ idle' = IdleAfter(r)
    /\ UNCHANGED <<link_up, alive>>
    /\ UNCHANGED tcp_vars

DispatchedNext ==
    \/ TimerFire
    \/ ReceiveReply
    \/ ArpInfo
    \/ LinkChange
    \/ Retry
    \/ Destroy
    \/ TimePasses

DispatchedSpec == Init /\ [][DispatchedNext]_vars /\ WF_vars(TimerFire)

\* ------------------------------------------------------------------------
\* C40.  The client does not stall while the link is up.
\* ------------------------------------------------------------------------
\* The run of the timer is disturbed: the client is destroyed or in LINK_DOWN,
\* or the latest handler, not the timer's, changed the state (it accepted a
\* server's message or a conflicting ARP response, or handled a change of the
\* link).
Disturbed ==
    \/ ~alive
    \/ m_state = "LinkDown"
    \/ Did("state") /\ ~Did("timer_expired")

\* The timer's handler has just sent a DISCOVER in SELECTING.
DiscoverSentByTimer ==
    /\ m_state = "Selecting"
    /\ Did("timer_expired")
    /\ SendsOne(effects, "Discover")

\* C40: with the timer dispatched, (1) a live client outside LINK_DOWN
\* eventually is in SELECTING, unless disturbed; (2) SELECTING is left only by
\* a disturbance; (3) again and again the timer's handler sends a DISCOVER in
\* SELECTING or the client is disturbed, so an undisturbed client sends
\* DISCOVERs for ever; (4) in RESETTING the timer is armed, on entry for
\* ResetTimeoutSeconds, and its handler enters SELECTING and sends a DISCOVER.
ClientNeverStalls ==
    /\ (alive /\ m_state # "LinkDown") ~> (m_state = "Selecting" \/ Disturbed)
    /\ [][(m_state = "Selecting" /\ m_state' # "Selecting") => Disturbed']_vars
    /\ []<>(DiscoverSentByTimer \/ Disturbed)
    /\ []((Running /\ m_state = "Resetting") =>
             /\ timer_set
             /\ Entered("Resetting") =>
                   timer_time = SecToTicksNoAssert(ResetTimeoutSeconds)
             /\ \A d \in 0..MaxLatency :
                   /\ TimerFired(d).m_state = "Selecting"
                   /\ SendsOne(TimerFired(d).effects, "Discover"))

\* Witness of C40: the client has been waiting in RESETTING, undisturbed, and
\* the timer's handler is about to take it to SELECTING.
ResettingAboutToDiscover ==
    /\ Running
    /\ m_state = "Resetting"
    /\ ~Disturbed
    /\ timer_set
    /\ TimerFired(0).m_state = "Selecting"
    /\ SendsOne(TimerFired(0).effects, "Discover")

====
